---- MODULE Spec2Model ----
(***************************************************************************)
(* The IMS-BAO front end: the entity managers (Users, Products, Orders),   *)
(* the student shop, the login gate and the dashboard aggregator.          *)
(*                                                                         *)
(* One component is mounted at a time.  Its React state is the record ui,  *)
(* whose fields are named after the component's useState hooks; the        *)
(* variable view tells which component it is.  A handler that awaits a     *)
(* request is split at the await: the part before it is one action, and    *)
(* each outcome of the request (resolved, rejected) is another.  A request *)
(* in flight carries the values the handler's closure captured when it     *)
(* was called, since the code after the await reads those, not the state   *)
(* of the render that is current when the response arrives.                *)
(***************************************************************************)
EXTENDS Integers, Sequences, FiniteSets, Bags, TLC

VARIABLES
    app,    \* App: isAuthenticated, currentUser, and the browser's localStorage
    view,   \* the component that is mounted
    ui,     \* the mounted component's React state
    toast,  \* the text of the last notification shown (sonner), "" when none
    net,    \* the requests in flight: a bag of request records
    db,     \* the backend's collections
    sent    \* how many mutations the user has submitted so far

vars == <<app, view, ui, toast, net, db, sent>>

\* ------------------------------------------------------------------ bounds

\* The mutations (create, update, delete submissions) a user makes in a run.
MaxWrites == 1

\* The loads of a product's variants that are awaited at one time.
MaxLoads == 1

\* ----------------------------------------------------------------- values

\* A nullable value (T | null) is a sequence of at most one element.
None == <<>>
Some(x) == <<x>>
IsSome(o) == o # <<>>
The(o) == o[1]

\* The records of the sequence s whose field key is id.
Having(s, key, id) == SelectSeq(s, LAMBDA x : x[key] = id)

\* ---------------------------------------------------------------- strings

LowerChar(c) ==
    CASE c = "A" -> "a" [] c = "B" -> "b" [] c = "C" -> "c" [] c = "D" -> "d"
      [] c = "E" -> "e" [] c = "F" -> "f" [] c = "G" -> "g" [] c = "H" -> "h"
      [] c = "I" -> "i" [] c = "J" -> "j" [] c = "K" -> "k" [] c = "L" -> "l"
      [] c = "M" -> "m" [] c = "N" -> "n" [] c = "O" -> "o" [] c = "P" -> "p"
      [] c = "Q" -> "q" [] c = "R" -> "r" [] c = "S" -> "s" [] c = "T" -> "t"
      [] c = "U" -> "u" [] c = "V" -> "v" [] c = "W" -> "w" [] c = "X" -> "x"
      [] c = "Y" -> "y" [] c = "Z" -> "z" [] OTHER -> c

\* String.prototype.toLowerCase
RECURSIVE toLowerCase(_)
toLowerCase(s) ==
    IF Len(s) = 0 THEN ""
    ELSE LowerChar(SubSeq(s, 1, 1)) \o toLowerCase(SubSeq(s, 2, Len(s)))

\* String.prototype.includes: t occurs in s as a contiguous substring
\* (the empty string occurs in every string).
includes(s, t) ==
    \E i \in 1..(Len(s) - Len(t) + 1) : SubSeq(s, i, i + Len(t) - 1) = t

\* ------------------------------------------------------------ the backend
\* The REST backend is not part of the front-end sources.  A create appends
\* the record sent under a fresh id and answers with it, an update replaces
\* the fields sent, a delete removes the record, a list answers the whole
\* collection in insertion order.

SeedStudents ==
    << [studentId |-> 1, firstname |-> "Ben", lastname |-> "Reyes",
        college |-> "CBA", program |-> "BSA"] >>

SeedProducts ==
    << [productId |-> 1, productName |-> "Ballpen", productCategory |-> "Supplies",
        price |-> 15, quantity |-> 40, status |-> "in stock", imageUrl |-> ""] >>

\* The second order is for a product that has been deleted since.
SeedOrders ==
    << [orderId |-> 1, productId |-> 1, dateToClaim |-> "2025-11-10",
        status |-> "pending", amount |-> 15, createdAt |-> Some(0),
        transactions |-> << [student |-> Some([firstname |-> "Juan",
                                                lastname |-> "Dela Cruz"])] >>],
       [orderId |-> 2, productId |-> 2, dateToClaim |-> "2025-11-12",
        status |-> "claimed", amount |-> 50, createdAt |-> Some(0),
        transactions |-> << [student |-> Some([firstname |-> "Ana",
                                                lastname |-> "Cruz"])] >>] >>

SeedDb ==
    [students |-> SeedStudents, products |-> SeedProducts, uniforms |-> <<>>,
     orders |-> SeedOrders, accounts |-> <<>>,
     nextId |-> [students |-> 2, products |-> 3, uniforms |-> 1, orders |-> 3,
                 accounts |-> 1]]

\* POST /<coll>: the record sent, stored under the collection's next id.
Created(coll, key, body) ==
    [db EXCEPT ![coll] = Append(@, body @@ (key :> db.nextId[coll])),
               !.nextId[coll] = @ + 1]

\* PUT /<coll>/{id}: the fields sent replace the stored ones.
Updated(coll, key, id, body) ==
    [db EXCEPT ![coll] =
        [i \in DOMAIN @ |->
            IF @[i][key] = id
            THEN [k \in DOMAIN @[i] |-> IF k \in DOMAIN body THEN body[k] ELSE @[i][k]]
            ELSE @[i]]]

\* DELETE /<coll>/{id}
Deleted(coll, key, id) ==
    [db EXCEPT ![coll] = SelectSeq(@, LAMBDA x : x[key] # id)]

\* ------------------------------------------------------------- the network

Send(r) == SetToBag({r})

\* The requests in flight whose op is one of ops.
InFlight(ops) == {r \in BagToSet(net) : r.op \in ops}

\* ---------------------------------------------------------------------- App

mockUsers ==
    << [email |-> "admin@rtu.edu.ph", password |-> "admin123",
        name |-> "BAO Administrator", role |-> "admin"],
       [email |-> "staff@rtu.edu.ph", password |-> "staff123",
        name |-> "BAO Staff Member", role |-> "staff"],
       [email |-> "student@rtu.edu.ph", password |-> "student123",
        name |-> "Juan Dela Cruz", role |-> "student"] >>

userData(user) == [email |-> user.email, name |-> user.name, role |-> user.role]

\* App once handleLogin has accepted user: the dashboard is shown to them.
LoggedIn(user) ==
    [isAuthenticated |-> TRUE, currentUser |-> Some(userData(user)),
     localStorage |-> Some(userData(user))]

\* ----------------------------------------------------------- UsersManager

UM_EmptyForm == [firstname |-> "", lastname |-> "", college |-> "", program |-> ""]

\* What the user types into the student form: a complete form, and one
\* with a field left empty.
UM_FormPool ==
    { [firstname |-> "Ana", lastname |-> "Cruz", college |-> "CEA", program |-> "BSCE"],
      [firstname |-> "Ana", lastname |-> "", college |-> "CEA", program |-> "BSCE"] }

UM_InitState ==
    [students |-> <<>>, isLoading |-> TRUE, searchTerm |-> "",
     isDialogOpen |-> FALSE, editingStudent |-> None,
     isDeleteDialogOpen |-> FALSE, studentToDelete |-> None,
     formData |-> UM_EmptyForm]

UM_filteredStudents(students, searchTerm) ==
    SelectSeq(students, LAMBDA student :
        LET fullName == toLowerCase(student.firstname \o " " \o student.lastname)
        IN  \/ includes(fullName, toLowerCase(searchTerm))
            \/ includes(toLowerCase(student.college), toLowerCase(searchTerm))
            \/ includes(toLowerCase(student.program), toLowerCase(searchTerm)))

\* The rows of the table; no dialog covers them.
UM_Rows ==
    IF ui.isDialogOpen \/ ui.isDeleteDialogOpen THEN {}
    ELSE {UM_filteredStudents(ui.students, ui.searchTerm)[i] :
            i \in DOMAIN UM_filteredStudents(ui.students, ui.searchTerm)}

\* api.getStudents between the fetch and its resolution: the server answers
\* the request with the collection as it is then, and the response travels.
\* Nothing orders the responses of two requests.
getStudents ==
    /\ view = "users"
    /\ \E r \in InFlight({"getStudents"}) :
        net' = (net (-) Send(r))
               (+) Send([op |-> "getStudents.response", data |-> db.students])
    /\ UNCHANGED <<app, view, ui, toast, db, sent>>

\* loadStudents, after the await: the response replaces the list, whichever
\* call of loadStudents it answers.
UM_loadStudentsOk ==
    /\ view = "users"
    /\ \E r \in InFlight({"getStudents.response"}) :
        /\ net' = net (-) Send(r)
        /\ ui' = [ui EXCEPT !.students = r.data, !.isLoading = FALSE]
    /\ UNCHANGED <<app, view, toast, db, sent>>

UM_loadStudentsFail ==
    /\ view = "users"
    /\ \E r \in InFlight({"getStudents"}) :
        /\ net' = net (-) Send(r)
        /\ toast' = "Failed to load students"
        /\ ui' = [ui EXCEPT !.isLoading = FALSE]
    /\ UNCHANGED <<app, view, db, sent>>

\* handleOpenDialog: the Add button (no argument), a row's edit button.
UM_handleOpenDialog ==
    /\ view = "users" /\ ~ui.isDialogOpen /\ ~ui.isDeleteDialogOpen
    /\ \/ ui' = [ui EXCEPT !.editingStudent = None, !.formData = UM_EmptyForm,
                           !.isDialogOpen = TRUE]
       \/ \E student \in UM_Rows :
            ui' = [ui EXCEPT !.editingStudent = Some(student),
                             !.formData = [firstname |-> student.firstname,
                                           lastname |-> student.lastname,
                                           college |-> student.college,
                                           program |-> student.program],
                             !.isDialogOpen = TRUE]
    /\ UNCHANGED <<app, view, toast, net, db, sent>>

\* Cancel (handleCloseDialog), and the dialog's own close (onOpenChange),
\* which leaves editingStudent as it is.
UM_handleCloseDialog ==
    /\ view = "users" /\ ui.isDialogOpen
    /\ \/ ui' = [ui EXCEPT !.isDialogOpen = FALSE, !.editingStudent = None]
       \/ ui' = [ui EXCEPT !.isDialogOpen = FALSE]
    /\ UNCHANGED <<app, view, toast, net, db, sent>>

\* The inputs' onChange handlers: the user's typing leaves the form as one
\* of the forms in the pool.
UM_setFormData ==
    /\ view = "users" /\ ui.isDialogOpen
    /\ \E f \in UM_FormPool : f # ui.formData /\ ui' = [ui EXCEPT !.formData = f]
    /\ UNCHANGED <<app, view, toast, net, db, sent>>

\* handleSubmit up to its await: the validation, then the request.
UM_handleSubmit ==
    /\ view = "users" /\ ui.isDialogOpen
    /\ IF \/ ui.formData.firstname = "" \/ ui.formData.lastname = ""
          \/ ui.formData.college = "" \/ ui.formData.program = ""
       THEN /\ toast' = "All fields are required"
            /\ UNCHANGED <<net, sent>>
       ELSE /\ sent < MaxWrites
            /\ sent' = sent + 1
            /\ net' = net (+) Send(
                 IF IsSome(ui.editingStudent)
                 THEN [op |-> "updateStudent", id |-> The(ui.editingStudent).studentId,
                       body |-> ui.formData]
                 ELSE [op |-> "createStudent", id |-> 0, body |-> ui.formData])
            /\ UNCHANGED toast
    /\ UNCHANGED <<app, view, ui, db>>

\* handleSubmit after its await, the request resolved: the success toast,
\* handleCloseDialog, loadStudents.
UM_handleSubmitOk ==
    /\ view = "users"
    /\ \E r \in InFlight({"createStudent", "updateStudent"}) :
        /\ db' = IF r.op = "createStudent"
                 THEN Created("students", "studentId", r.body)
                 ELSE Updated("students", "studentId", r.id, r.body)
        /\ toast' = IF r.op = "createStudent" THEN "Student created successfully!"
                    ELSE "Student updated successfully!"
        /\ ui' = [ui EXCEPT !.isDialogOpen = FALSE, !.editingStudent = None,
                            !.isLoading = TRUE]
        /\ net' = (net (-) Send(r)) (+) Send([op |-> "getStudents"])
    /\ UNCHANGED <<app, view, sent>>

\* handleSubmit's catch.
UM_handleSubmitFail ==
    /\ view = "users"
    /\ \E r \in InFlight({"createStudent", "updateStudent"}) :
        /\ toast' = IF r.op = "updateStudent" THEN "Failed to update student"
                    ELSE "Failed to create student"
        /\ net' = net (-) Send(r)
    /\ UNCHANGED <<app, view, ui, db, sent>>

UM_handleDeleteClick ==
    /\ view = "users"
    /\ \E student \in UM_Rows :
        ui' = [ui EXCEPT !.studentToDelete = Some(student), !.isDeleteDialogOpen = TRUE]
    /\ UNCHANGED <<app, view, toast, net, db, sent>>

\* Cancel in the confirmation dialog (onOpenChange): studentToDelete stays.
UM_cancelDelete ==
    /\ view = "users" /\ ui.isDeleteDialogOpen
    /\ ui' = [ui EXCEPT !.isDeleteDialogOpen = FALSE]
    /\ UNCHANGED <<app, view, toast, net, db, sent>>

\* handleConfirmDelete up to its await.
UM_handleConfirmDelete ==
    /\ view = "users" /\ ui.isDeleteDialogOpen
    /\ IsSome(ui.studentToDelete)
    /\ sent < MaxWrites
    /\ sent' = sent + 1
    /\ net' = net (+) Send([op |-> "deleteStudent", id |-> The(ui.studentToDelete).studentId])
    /\ UNCHANGED <<app, view, ui, toast, db>>

UM_handleConfirmDeleteOk ==
    /\ view = "users"
    /\ \E r \in InFlight({"deleteStudent"}) :
        /\ db' = Deleted("students", "studentId", r.id)
        /\ toast' = "Student deleted successfully!"
        /\ ui' = [ui EXCEPT !.isDeleteDialogOpen = FALSE, !.studentToDelete = None,
                            !.isLoading = TRUE]
        /\ net' = (net (-) Send(r)) (+) Send([op |-> "getStudents"])
    /\ UNCHANGED <<app, view, sent>>

UM_handleConfirmDeleteFail ==
    /\ view = "users"
    /\ \E r \in InFlight({"deleteStudent"}) :
        /\ toast' = "Failed to delete student"
        /\ net' = net (-) Send(r)
    /\ UNCHANGED <<app, view, ui, db, sent>>

UM_Next ==
    \/ getStudents \/ UM_loadStudentsOk \/ UM_loadStudentsFail
    \/ UM_handleOpenDialog \/ UM_handleCloseDialog \/ UM_setFormData
    \/ UM_handleSubmit \/ UM_handleSubmitOk \/ UM_handleSubmitFail
    \/ UM_handleDeleteClick \/ UM_cancelDelete
    \/ UM_handleConfirmDelete \/ UM_handleConfirmDeleteOk \/ UM_handleConfirmDeleteFail

UM_Init ==
    /\ app = LoggedIn(mockUsers[1]) /\ view = "users" /\ ui = UM_InitState
    /\ toast = "" /\ net = Send([op |-> "getStudents"]) /\ db = SeedDb /\ sent = 0

\* -------------------------------------------------------- ProductsManager

\* getStatus with the low-stock bound off by one.
getStatusBelowTen(stock) ==
    IF stock = 0 THEN "out of stock"
    ELSE IF stock < 10 THEN "low stock"
    ELSE "in stock"

getStatus(stock) ==
    IF stock = 0 THEN "out of stock"
    ELSE IF stock <= 10 THEN "low stock"
    ELSE "in stock"

PM_EmptyForm ==
    [productName |-> "", productCategory |-> "ID & Cards", price |-> 0,
     quantity |-> 0, imageUrl |-> ""]

PM_EmptyUniformForm ==
    [sizeType |-> "M", gender |-> "Unisex", type |-> "Standard Uniform", piece |-> "Shirt"]

\* What the user enters in the product form (the uniform options show when
\* the category is Uniform): the fields other than imageUrl.
PM_FormPool ==
    { [productName |-> "Notebook", productCategory |-> "Book", price |-> 50,
       quantity |-> 11, uniform |-> PM_EmptyUniformForm],
      [productName |-> "Eraser", productCategory |-> "Supplies", price |-> 10,
       quantity |-> -1, uniform |-> PM_EmptyUniformForm],
      [productName |-> "Stapler", productCategory |-> "ID & Cards", price |-> 120,
       quantity |-> 20, uniform |-> PM_EmptyUniformForm],
      [productName |-> "", productCategory |-> "Uniform", price |-> 350, quantity |-> 0,
       uniform |-> [sizeType |-> "M", gender |-> "Male", type |-> "Standard Uniform",
                    piece |-> "Shirt"]] }

PM_InitState ==
    [products |-> <<>>, isLoading |-> TRUE, searchTerm |-> "",
     categoryFilter |-> "all", statusFilter |-> "all",
     isDialogOpen |-> FALSE, editingProduct |-> None,
     isDeleteDialogOpen |-> FALSE, productToDelete |-> None,
     selectedProductForUniform |-> None, isUniformDialogOpen |-> FALSE,
     uniforms |-> <<>>, formData |-> PM_EmptyForm,
     uniformFormData |-> PM_EmptyUniformForm, selectedImage |-> None]

PM_filteredProducts(products, searchTerm, categoryFilter, statusFilter) ==
    SelectSeq(products, LAMBDA product :
        /\ \/ includes(toLowerCase(product.productName), toLowerCase(searchTerm))
           \/ includes(toLowerCase(product.productCategory), toLowerCase(searchTerm))
        /\ categoryFilter = "all" \/ product.productCategory = categoryFilter
        /\ statusFilter = "all" \/ getStatus(product.quantity) = statusFilter)

\* The rows of the table: none while the spinner replaces the page, or while
\* a dialog covers it.
PM_Rows ==
    IF ui.isLoading \/ ui.isDialogOpen \/ ui.isDeleteDialogOpen \/ ui.isUniformDialogOpen
    THEN {}
    ELSE LET shown == PM_filteredProducts(ui.products, ui.searchTerm,
                                          ui.categoryFilter, ui.statusFilter)
         IN  {shown[i] : i \in DOMAIN shown}

PM_loadProductsOk ==
    /\ view = "inventory"
    /\ \E r \in InFlight({"getProducts"}) :
        /\ net' = net (-) Send(r)
        /\ ui' = [ui EXCEPT !.products = db.products, !.isLoading = FALSE]
    /\ UNCHANGED <<app, view, toast, db, sent>>

PM_loadProductsFail ==
    /\ view = "inventory"
    /\ \E r \in InFlight({"getProducts"}) :
        /\ net' = net (-) Send(r)
        /\ toast' = "Failed to load products"
        /\ ui' = [ui EXCEPT !.isLoading = FALSE]
    /\ UNCHANGED <<app, view, db, sent>>

\* handleOpenDialog: the Add button (no argument), a row's edit button.
PM_handleOpenDialog ==
    /\ view = "inventory" /\ ~ui.isLoading
    /\ ~ui.isDialogOpen /\ ~ui.isDeleteDialogOpen /\ ~ui.isUniformDialogOpen
    /\ \/ ui' = [ui EXCEPT !.editingProduct = None, !.formData = PM_EmptyForm,
                           !.selectedImage = None,
                           !.uniformFormData = PM_EmptyUniformForm,
                           !.isDialogOpen = TRUE]
       \/ \E product \in PM_Rows :
            ui' = [ui EXCEPT !.editingProduct = Some(product),
                             !.formData = [productName |-> product.productName,
                                           productCategory |-> product.productCategory,
                                           price |-> product.price,
                                           quantity |-> product.quantity,
                                           imageUrl |-> product.imageUrl],
                             !.selectedImage = None,
                             !.isDialogOpen = TRUE]
    /\ UNCHANGED <<app, view, toast, net, db, sent>>

\* Cancel (handleCloseDialog), and the dialog's own close (onOpenChange),
\* which only clears isDialogOpen.
PM_handleCloseDialog ==
    /\ view = "inventory" /\ ~ui.isLoading /\ ui.isDialogOpen
    /\ \/ ui' = [ui EXCEPT !.isDialogOpen = FALSE, !.editingProduct = None,
                           !.selectedImage = None]
       \/ ui' = [ui EXCEPT !.isDialogOpen = FALSE]
    /\ UNCHANGED <<app, view, toast, net, db, sent>>

\* The inputs' onChange handlers of the product form and its uniform options.
PM_setFormData ==
    /\ view = "inventory" /\ ~ui.isLoading /\ ui.isDialogOpen
    /\ \E f \in PM_FormPool :
        /\ ui' = [ui EXCEPT !.formData = [productName |-> f.productName,
                                          productCategory |-> f.productCategory,
                                          price |-> f.price, quantity |-> f.quantity,
                                          imageUrl |-> ui.formData.imageUrl],
                            !.uniformFormData = f.uniform]
        /\ ui' # ui
    /\ UNCHANGED <<app, view, toast, net, db, sent>>

\* handleImageChange: a file of a type that is not allowed, a file over
\* 5 MB, an acceptable file.
PM_handleImageChange ==
    /\ view = "inventory" /\ ~ui.isLoading /\ ui.isDialogOpen
    /\ \/ /\ toast' = "Invalid file type. Please upload an image (JPEG, PNG, WebP, or GIF)."
          /\ UNCHANGED ui
       \/ /\ toast' = "File size exceeds 5MB limit."
          /\ UNCHANGED ui
       \/ /\ ui' = [ui EXCEPT !.selectedImage = Some("logo.png")]
          /\ ui' # ui
          /\ UNCHANGED toast
    /\ UNCHANGED <<app, view, net, db, sent>>

\* The product name handleSubmit sends: typed, or generated for a uniform.
PM_productName(c) ==
    IF c.formData.productCategory = "Uniform"
    THEN IF c.uniformFormData.type = "Standard Uniform"
         THEN c.uniformFormData.gender \o " " \o c.uniformFormData.type \o " "
              \o c.uniformFormData.piece \o " " \o c.uniformFormData.sizeType
         ELSE c.uniformFormData.type \o " " \o c.uniformFormData.piece \o " "
              \o c.uniformFormData.sizeType
    ELSE c.formData.productName

\* The request handleSubmit makes for the product, from the values c its
\* closure holds.  api.createProduct takes five arguments: the imageUrl
\* passed as a sixth is not sent.
PM_productRequest(c, imageUrl) ==
    IF IsSome(c.editingProduct)
    THEN [op |-> "updateProduct", id |-> The(c.editingProduct).productId, c |-> c,
          body |-> [productName |-> PM_productName(c),
                    productCategory |-> c.formData.productCategory,
                    price |-> c.formData.price, quantity |-> c.formData.quantity,
                    imageUrl |-> imageUrl,
                    status |-> getStatus(c.formData.quantity)]]
    ELSE [op |-> "createProduct", id |-> 0, c |-> c,
          body |-> [productName |-> PM_productName(c),
                    productCategory |-> c.formData.productCategory,
                    price |-> c.formData.price, quantity |-> c.formData.quantity,
                    status |-> getStatus(c.formData.quantity)]]

\* PM_uniformBody without the reference to the created product.
PM_uniformBodyNoProduct(c, productId) ==
    [productId |-> 0, sizeType |-> c.uniformFormData.sizeType,
     gender |-> IF c.uniformFormData.type = "PE" THEN "Unisex"
                ELSE c.uniformFormData.gender,
     type |-> c.uniformFormData.type]

\* The body of the POST /uniforms that follows the creation of a uniform.
PM_uniformBody(c, productId) ==
    [productId |-> productId, sizeType |-> c.uniformFormData.sizeType,
     gender |-> IF c.uniformFormData.type = "PE" THEN "Unisex"
                ELSE c.uniformFormData.gender,
     type |-> c.uniformFormData.type]

\* handleCloseDialog followed by loadProducts, up to its await.
PM_closedAndLoading ==
    [ui EXCEPT !.isDialogOpen = FALSE, !.editingProduct = None,
               !.selectedImage = None, !.isLoading = TRUE]

\* handleSubmit up to its first await: the image upload when a file is
\* selected, the product request otherwise.
PM_handleSubmit ==
    /\ view = "inventory" /\ ~ui.isLoading /\ ui.isDialogOpen
    /\ sent < MaxWrites
    /\ sent' = sent + 1
    /\ LET c == [formData |-> ui.formData, uniformFormData |-> ui.uniformFormData,
                 editingProduct |-> ui.editingProduct]
       IN  net' = net (+) Send(IF IsSome(ui.selectedImage)
                               THEN [op |-> "uploadImage", c |-> c]
                               ELSE PM_productRequest(c, ui.formData.imageUrl))
    /\ UNCHANGED <<app, view, ui, toast, db>>

\* uploadImage resolved: handleSubmit goes on to the product request.
PM_uploadImageOk ==
    /\ view = "inventory"
    /\ \E r \in InFlight({"uploadImage"}) :
        net' = (net (-) Send(r)) (+) Send(PM_productRequest(r.c, "/uploads/logo.png"))
    /\ UNCHANGED <<app, view, ui, toast, db, sent>>

\* uploadImage's catch: it answers null and handleSubmit returns.
PM_uploadImageFail ==
    /\ view = "inventory"
    /\ \E r \in InFlight({"uploadImage"}) :
        /\ net' = net (-) Send(r)
        /\ toast' = "Failed to upload image"
    /\ UNCHANGED <<app, view, ui, db, sent>>

\* api.createProduct resolved: the toast, then for a uniform the variant
\* request, for anything else handleCloseDialog and loadProducts.
PM_createProductOk ==
    /\ view = "inventory"
    /\ \E r \in InFlight({"createProduct"}) :
        /\ db' = Created("products", "productId", r.body @@ [imageUrl |-> ""])
        /\ toast' = "Product created successfully!"
        /\ IF r.c.formData.productCategory = "Uniform"
           THEN /\ net' = (net (-) Send(r)) (+)
                          Send([op |-> "createUniform",
                                body |-> PM_uniformBody(r.c, db.nextId.products)])
                /\ UNCHANGED ui
           ELSE /\ net' = (net (-) Send(r)) (+) Send([op |-> "getProducts"])
                /\ ui' = PM_closedAndLoading
    /\ UNCHANGED <<app, view, sent>>

PM_updateProductOk ==
    /\ view = "inventory"
    /\ \E r \in InFlight({"updateProduct"}) :
        /\ db' = Updated("products", "productId", r.id, r.body)
        /\ toast' = "Product updated successfully!"
        /\ net' = (net (-) Send(r)) (+) Send([op |-> "getProducts"])
        /\ ui' = PM_closedAndLoading
    /\ UNCHANGED <<app, view, sent>>

\* PM_handleSubmitFail with the success path's handleCloseDialog in the catch.
PM_handleSubmitFailClosing ==
    /\ view = "inventory"
    /\ \E r \in InFlight({"createProduct", "updateProduct"}) :
        /\ toast' = IF IsSome(r.c.editingProduct) THEN "Failed to update product"
                    ELSE "Failed to create product"
        /\ net' = net (-) Send(r)
    /\ ui' = [ui EXCEPT !.isDialogOpen = FALSE, !.editingProduct = None,
                        !.selectedImage = None]
    /\ UNCHANGED <<app, view, db, sent>>

\* handleSubmit's catch: api.createProduct or api.updateProduct rejected.
PM_handleSubmitFail ==
    /\ view = "inventory"
    /\ \E r \in InFlight({"createProduct", "updateProduct"}) :
        /\ toast' = IF IsSome(r.c.editingProduct) THEN "Failed to update product"
                    ELSE "Failed to create product"
        /\ net' = net (-) Send(r)
    /\ UNCHANGED <<app, view, ui, db, sent>>

\* POST /uniforms answered ok.
PM_createUniformOk ==
    /\ view = "inventory"
    /\ \E r \in InFlight({"createUniform"}) :
        /\ db' = Created("uniforms", "uniformId", r.body)
        /\ toast' = "Uniform variant created!"
        /\ net' = (net (-) Send(r)) (+) Send([op |-> "getProducts"])
        /\ ui' = PM_closedAndLoading
    /\ UNCHANGED <<app, view, sent>>

\* PM_createUniformFail leaving handleSubmit at the failure: the dialog
\* stays open and nothing is reloaded.
PM_createUniformFailReturning ==
    /\ view = "inventory"
    /\ \E r \in InFlight({"createUniform"}) : net' = net (-) Send(r)
    /\ UNCHANGED <<app, view, ui, toast, db, sent>>

\* POST /uniforms answered with an error status, or fetch threw (the inner
\* catch): neither is reported, and handleSubmit goes on.
PM_createUniformFail ==
    /\ view = "inventory"
    /\ \E r \in InFlight({"createUniform"}) :
        /\ net' = (net (-) Send(r)) (+) Send([op |-> "getProducts"])
        /\ ui' = PM_closedAndLoading
    /\ UNCHANGED <<app, view, toast, db, sent>>

PM_handleDeleteClick ==
    /\ view = "inventory"
    /\ \E product \in PM_Rows :
        ui' = [ui EXCEPT !.productToDelete = Some(product), !.isDeleteDialogOpen = TRUE]
    /\ UNCHANGED <<app, view, toast, net, db, sent>>

\* Cancel in the confirmation dialog (onOpenChange): productToDelete stays.
PM_cancelDelete ==
    /\ view = "inventory" /\ ~ui.isLoading /\ ui.isDeleteDialogOpen
    /\ ui' = [ui EXCEPT !.isDeleteDialogOpen = FALSE]
    /\ UNCHANGED <<app, view, toast, net, db, sent>>

\* handleConfirmDelete up to its await.
PM_handleConfirmDelete ==
    /\ view = "inventory" /\ ~ui.isLoading /\ ui.isDeleteDialogOpen
    /\ IsSome(ui.productToDelete)
    /\ sent < MaxWrites
    /\ sent' = sent + 1
    /\ net' = net (+) Send([op |-> "deleteProduct", id |-> The(ui.productToDelete).productId])
    /\ UNCHANGED <<app, view, ui, toast, db>>

PM_handleConfirmDeleteOk ==
    /\ view = "inventory"
    /\ \E r \in InFlight({"deleteProduct"}) :
        /\ db' = Deleted("products", "productId", r.id)
        /\ toast' = "Product deleted successfully!"
        /\ ui' = [ui EXCEPT !.isDeleteDialogOpen = FALSE, !.productToDelete = None,
                            !.isLoading = TRUE]
        /\ net' = (net (-) Send(r)) (+) Send([op |-> "getProducts"])
    /\ UNCHANGED <<app, view, sent>>

PM_handleConfirmDeleteFail ==
    /\ view = "inventory"
    /\ \E r \in InFlight({"deleteProduct"}) :
        /\ toast' = "Failed to delete product"
        /\ net' = net (-) Send(r)
    /\ UNCHANGED <<app, view, ui, db, sent>>

\* The "+" button of a row; it is rendered for the category Uniform.  The
\* variants of the product opened before stay until loadUniforms answers.
PM_handleOpenUniformDialog ==
    /\ view = "inventory"
    /\ BagCardinality([r \in InFlight({"getUniforms"}) |-> CopiesIn(r, net)]) < MaxLoads
    /\ \E product \in PM_Rows :
        /\ product.productCategory = "Uniform"
        /\ ui' = [ui EXCEPT !.selectedProductForUniform = Some(product),
                            !.uniformFormData = PM_EmptyUniformForm,
                            !.isUniformDialogOpen = TRUE]
        /\ net' = net (+) Send([op |-> "getUniforms", productId |-> product.productId])
    /\ UNCHANGED <<app, view, toast, db, sent>>

\* loadUniforms after its await: the variants of the product replace the
\* list; an error status or an exception changes nothing.
PM_loadUniforms ==
    /\ view = "inventory"
    /\ \E r \in InFlight({"getUniforms"}) :
        /\ net' = net (-) Send(r)
        /\ \/ ui' = [ui EXCEPT !.uniforms = Having(db.uniforms, "productId", r.productId)]
           \/ UNCHANGED ui
    /\ UNCHANGED <<app, view, toast, db, sent>>

\* The selects of the variant form.
PM_setUniformFormData ==
    /\ view = "inventory" /\ ui.isUniformDialogOpen
    /\ ui.uniformFormData = PM_EmptyUniformForm
    /\ ui' = [ui EXCEPT !.uniformFormData =
                 [sizeType |-> "L", gender |-> "Female", type |-> "PE", piece |-> "Shirt"]]
    /\ UNCHANGED <<app, view, toast, net, db, sent>>

\* Close, or the dialog dismissed.
PM_closeUniformDialog ==
    /\ view = "inventory" /\ ui.isUniformDialogOpen
    /\ ui' = [ui EXCEPT !.isUniformDialogOpen = FALSE]
    /\ UNCHANGED <<app, view, toast, net, db, sent>>

\* handleSubmitUniform up to its await.
PM_handleSubmitUniform ==
    /\ view = "inventory" /\ ui.isUniformDialogOpen
    /\ IsSome(ui.selectedProductForUniform)
    /\ sent < MaxWrites
    /\ sent' = sent + 1
    /\ net' = net (+) Send(
         [op |-> "submitUniform",
          productId |-> The(ui.selectedProductForUniform).productId,
          body |-> [productId |-> The(ui.selectedProductForUniform).productId]
                   @@ ui.uniformFormData])
    /\ UNCHANGED <<app, view, ui, toast, db>>

PM_handleSubmitUniformOk ==
    /\ view = "inventory"
    /\ \E r \in InFlight({"submitUniform"}) :
        /\ db' = Created("uniforms", "uniformId", r.body)
        /\ toast' = "Uniform variant created successfully!"
        /\ ui' = [ui EXCEPT !.uniformFormData = PM_EmptyUniformForm]
        /\ net' = (net (-) Send(r))
                  (+) Send([op |-> "getUniforms", productId |-> r.productId])
    /\ UNCHANGED <<app, view, sent>>

PM_handleSubmitUniformFail ==
    /\ view = "inventory"
    /\ \E r \in InFlight({"submitUniform"}) :
        /\ toast' = "Failed to create uniform variant"
        /\ net' = net (-) Send(r)
    /\ UNCHANGED <<app, view, ui, db, sent>>

\* The delete button of a variant, up to the await: the request is sent at
\* once.  selectedProductForUniform is read after the await from the render
\* the button was pressed in.
PM_handleDeleteUniform ==
    /\ view = "inventory" /\ ui.isUniformDialogOpen
    /\ sent < MaxWrites
    /\ sent' = sent + 1
    /\ \E i \in DOMAIN ui.uniforms :
        net' = net (+) Send([op |-> "deleteUniform", id |-> ui.uniforms[i].uniformId,
                             selected |-> ui.selectedProductForUniform])
    /\ UNCHANGED <<app, view, ui, toast, db>>

PM_handleDeleteUniformOk ==
    /\ view = "inventory"
    /\ \E r \in InFlight({"deleteUniform"}) :
        /\ db' = Deleted("uniforms", "uniformId", r.id)
        /\ toast' = "Uniform variant deleted successfully!"
        /\ net' = IF IsSome(r.selected)
                  THEN (net (-) Send(r))
                       (+) Send([op |-> "getUniforms",
                                 productId |-> The(r.selected).productId])
                  ELSE net (-) Send(r)
    /\ UNCHANGED <<app, view, ui, sent>>

PM_handleDeleteUniformFail ==
    /\ view = "inventory"
    /\ \E r \in InFlight({"deleteUniform"}) :
        /\ toast' = "Failed to delete uniform variant"
        /\ net' = net (-) Send(r)
    /\ UNCHANGED <<app, view, ui, db, sent>>

PM_Next ==
    \/ PM_loadProductsOk \/ PM_loadProductsFail
    \/ PM_handleOpenDialog \/ PM_handleCloseDialog
    \/ PM_setFormData \/ PM_handleImageChange
    \/ PM_handleSubmit \/ PM_uploadImageOk \/ PM_uploadImageFail
    \/ PM_createProductOk \/ PM_updateProductOk \/ PM_handleSubmitFail
    \/ PM_createUniformOk \/ PM_createUniformFail
    \/ PM_handleDeleteClick \/ PM_cancelDelete
    \/ PM_handleConfirmDelete \/ PM_handleConfirmDeleteOk \/ PM_handleConfirmDeleteFail
    \/ PM_handleOpenUniformDialog \/ PM_loadUniforms \/ PM_setUniformFormData
    \/ PM_closeUniformDialog
    \/ PM_handleSubmitUniform \/ PM_handleSubmitUniformOk \/ PM_handleSubmitUniformFail
    \/ PM_handleDeleteUniform \/ PM_handleDeleteUniformOk \/ PM_handleDeleteUniformFail

\* An inventory of one uniform and its one variant.
PM_Db ==
    [SeedDb EXCEPT
        !.products =
            << [productId |-> 3, productName |-> "Male Standard Uniform Shirt M",
                productCategory |-> "Uniform", price |-> 350, quantity |-> 5,
                status |-> "low stock", imageUrl |-> ""] >>,
        !.orders = <<>>,
        !.uniforms = << [uniformId |-> 1, productId |-> 3, sizeType |-> "M",
                         gender |-> "Male", type |-> "Standard Uniform",
                         piece |-> "Shirt"] >>,
        !.nextId = [@ EXCEPT !.products = 4, !.uniforms = 2]]

PM_Init ==
    /\ app = LoggedIn(mockUsers[1]) /\ view = "inventory" /\ ui = PM_InitState
    /\ toast = "" /\ net = Send([op |-> "getProducts"]) /\ db = PM_Db /\ sent = 0

\* ------------------------------------------- OrdersManager (backed by the API)

\* new Date().toISOString().split("T")[0] on the day of the run
Today == "2025-11-04"

OM_EmptyForm == [productId |-> 0, dateToClaim |-> Today, status |-> "pending", amount |-> 0]

OM_FormPool ==
    { [productId |-> 1, dateToClaim |-> "2025-11-20", status |-> "ready", amount |-> 15],
      [productId |-> 1, dateToClaim |-> "2025-11-20", status |-> "ready", amount |-> 20] }

OM_InitState ==
    [orders |-> <<>>, isLoading |-> TRUE, searchTerm |-> "", statusFilter |-> "all",
     isDialogOpen |-> FALSE, isViewDialogOpen |-> FALSE,
     editingOrder |-> None, viewingOrder |-> None,
     isDeleteDialogOpen |-> FALSE, orderToDelete |-> None,
     products |-> <<>>, formData |-> OM_EmptyForm]

\* filteredOrders comparing every status, "all" too, with the order's.
OM_filteredOrdersNoAll(orders, searchTerm, statusFilter, userRole, userName) ==
    SelectSeq(orders, LAMBDA order :
        /\ userRole = "student" =>
             \E i \in DOMAIN order.transactions :
                /\ IsSome(order.transactions[i].student)
                /\ The(order.transactions[i].student).firstname # ""
                /\ includes(toLowerCase(The(order.transactions[i].student).firstname
                                        \o " "
                                        \o The(order.transactions[i].student).lastname),
                            toLowerCase(userName))
        /\ includes(toLowerCase(ToString(order.orderId)), toLowerCase(searchTerm))
        /\ toLowerCase(order.status) = toLowerCase(statusFilter))

OM_filteredOrders(orders, searchTerm, statusFilter, userRole, userName) ==
    SelectSeq(orders, LAMBDA order :
        /\ userRole = "student" =>
             \E i \in DOMAIN order.transactions :
                /\ IsSome(order.transactions[i].student)
                /\ The(order.transactions[i].student).firstname # ""
                /\ includes(toLowerCase(The(order.transactions[i].student).firstname
                                        \o " "
                                        \o The(order.transactions[i].student).lastname),
                            toLowerCase(userName))
        /\ includes(toLowerCase(ToString(order.orderId)), toLowerCase(searchTerm))
        /\ statusFilter = "all" \/ toLowerCase(order.status) = toLowerCase(statusFilter))

\* getProductName without the fallback: the name found, or nothing.
getProductNameNoFallback(products, productId) ==
    LET found == SelectSeq(products, LAMBDA p : p.productId = productId)
    IN  IF found # <<>> THEN found[1].productName ELSE ""

\* products.find(p => p.productId === productId)?.productName || "Unknown Product"
getProductName(products, productId) ==
    LET found == SelectSeq(products, LAMBDA p : p.productId = productId)
    IN  IF found # <<>> /\ found[1].productName # "" THEN found[1].productName
        ELSE "Unknown Product"

\* The rows of the table: none while the spinner replaces the page, or while
\* a dialog covers it.
OM_Rows ==
    IF \/ ui.isLoading \/ ui.isDialogOpen \/ ui.isViewDialogOpen \/ ui.isDeleteDialogOpen
    THEN {}
    ELSE LET shown == OM_filteredOrders(ui.orders, ui.searchTerm, ui.statusFilter,
                                        The(app.currentUser).role,
                                        The(app.currentUser).name)
         IN  {shown[i] : i \in DOMAIN shown}

\* The table body: one row for each filtered order, in order.
OM_TableRows ==
    LET shown == OM_filteredOrders(ui.orders, ui.searchTerm, ui.statusFilter,
                                   The(app.currentUser).role, The(app.currentUser).name)
    IN  [i \in DOMAIN shown |->
            [orderId |-> shown[i].orderId,
             productName |-> getProductName(ui.products, shown[i].productId),
             amount |-> shown[i].amount, status |-> shown[i].status]]

OM_loadOrdersOk ==
    /\ view = "orders"
    /\ \E r \in InFlight({"getOrders"}) :
        /\ net' = net (-) Send(r)
        /\ ui' = [ui EXCEPT !.orders = db.orders, !.isLoading = FALSE]
    /\ UNCHANGED <<app, view, toast, db, sent>>

OM_loadOrdersFail ==
    /\ view = "orders"
    /\ \E r \in InFlight({"getOrders"}) :
        /\ net' = net (-) Send(r)
        /\ toast' = "Failed to load orders"
        /\ ui' = [ui EXCEPT !.isLoading = FALSE]
    /\ UNCHANGED <<app, view, db, sent>>

\* loadProducts: the response replaces the product list; a failure is only
\* logged to the console.
OM_loadProducts ==
    /\ view = "orders"
    /\ \E r \in InFlight({"getProducts"}) :
        /\ net' = net (-) Send(r)
        /\ \/ ui' = [ui EXCEPT !.products = db.products]
           \/ UNCHANGED ui
    /\ UNCHANGED <<app, view, toast, db, sent>>

\* OM_handleOpenDialog with the buttons rendered for every role.
OM_handleOpenDialogAnyRole ==
    /\ view = "orders" /\ ~ui.isLoading
    /\ ~ui.isDialogOpen /\ ~ui.isViewDialogOpen /\ ~ui.isDeleteDialogOpen
    /\ \/ ui' = [ui EXCEPT !.editingOrder = None, !.formData = OM_EmptyForm,
                           !.isDialogOpen = TRUE]
       \/ \E order \in OM_Rows :
            ui' = [ui EXCEPT !.editingOrder = Some(order),
                             !.formData = [productId |-> order.productId,
                                           dateToClaim |-> order.dateToClaim,
                                           status |-> order.status,
                                           amount |-> order.amount],
                             !.isDialogOpen = TRUE]
    /\ UNCHANGED <<app, view, toast, net, db, sent>>

\* handleOpenDialog: the Add button (no argument), a row's edit button.
\* Neither button is rendered for a student.
OM_handleOpenDialog ==
    /\ view = "orders" /\ ~ui.isLoading /\ The(app.currentUser).role # "student"
    /\ ~ui.isDialogOpen /\ ~ui.isViewDialogOpen /\ ~ui.isDeleteDialogOpen
    /\ \/ ui' = [ui EXCEPT !.editingOrder = None, !.formData = OM_EmptyForm,
                           !.isDialogOpen = TRUE]
       \/ \E order \in OM_Rows :
            ui' = [ui EXCEPT !.editingOrder = Some(order),
                             !.formData = [productId |-> order.productId,
                                           dateToClaim |-> order.dateToClaim,
                                           status |-> order.status,
                                           amount |-> order.amount],
                             !.isDialogOpen = TRUE]
    /\ UNCHANGED <<app, view, toast, net, db, sent>>

\* Cancel (handleCloseDialog), and the dialog's own close (onOpenChange).
OM_handleCloseDialog ==
    /\ view = "orders" /\ ~ui.isLoading /\ ui.isDialogOpen
    /\ \/ ui' = [ui EXCEPT !.isDialogOpen = FALSE, !.editingOrder = None]
       \/ ui' = [ui EXCEPT !.isDialogOpen = FALSE]
    /\ UNCHANGED <<app, view, toast, net, db, sent>>

OM_setFormData ==
    /\ view = "orders" /\ ~ui.isLoading /\ ui.isDialogOpen
    /\ \E f \in OM_FormPool : f # ui.formData /\ ui' = [ui EXCEPT !.formData = f]
    /\ UNCHANGED <<app, view, toast, net, db, sent>>

OM_handleViewOrder ==
    /\ view = "orders"
    /\ \E order \in OM_Rows :
        ui' = [ui EXCEPT !.viewingOrder = Some(order), !.isViewDialogOpen = TRUE]
    /\ UNCHANGED <<app, view, toast, net, db, sent>>

\* Close in the view dialog: viewingOrder stays.
OM_closeView ==
    /\ view = "orders" /\ ~ui.isLoading /\ ui.isViewDialogOpen
    /\ ui' = [ui EXCEPT !.isViewDialogOpen = FALSE]
    /\ UNCHANGED <<app, view, toast, net, db, sent>>

\* handleSubmit up to its await.  An update sends the date, the status and
\* the amount; a create sends the product as well.
OM_handleSubmit ==
    /\ view = "orders" /\ ~ui.isLoading /\ ui.isDialogOpen
    /\ sent < MaxWrites
    /\ sent' = sent + 1
    /\ net' = net (+) Send(
         IF IsSome(ui.editingOrder)
         THEN [op |-> "updateOrder", id |-> The(ui.editingOrder).orderId,
               body |-> [dateToClaim |-> ui.formData.dateToClaim,
                         status |-> ui.formData.status, amount |-> ui.formData.amount]]
         ELSE [op |-> "createOrder", id |-> 0, body |-> ui.formData])
    /\ UNCHANGED <<app, view, ui, toast, db>>

\* handleSubmit after its await, the request resolved: the success toast,
\* handleCloseDialog, loadOrders.
OM_handleSubmitOk ==
    /\ view = "orders"
    /\ \E r \in InFlight({"createOrder", "updateOrder"}) :
        /\ db' = IF r.op = "createOrder"
                 THEN Created("orders", "orderId",
                              r.body @@ [createdAt |-> Some(0), transactions |-> <<>>])
                 ELSE Updated("orders", "orderId", r.id, r.body)
        /\ toast' = IF r.op = "createOrder" THEN "Order created successfully!"
                    ELSE "Order updated successfully!"
        /\ ui' = [ui EXCEPT !.isDialogOpen = FALSE, !.editingOrder = None,
                            !.isLoading = TRUE]
        /\ net' = (net (-) Send(r)) (+) Send([op |-> "getOrders"])
    /\ UNCHANGED <<app, view, sent>>

\* handleSubmit's catch.
OM_handleSubmitFail ==
    /\ view = "orders"
    /\ \E r \in InFlight({"createOrder", "updateOrder"}) :
        /\ toast' = IF r.op = "updateOrder" THEN "Failed to update order"
                    ELSE "Failed to create order"
        /\ net' = net (-) Send(r)
    /\ UNCHANGED <<app, view, ui, db, sent>>

\* A row's delete button; it is not rendered for a student.
OM_handleDeleteClick ==
    /\ view = "orders" /\ The(app.currentUser).role # "student"
    /\ \E order \in OM_Rows :
        ui' = [ui EXCEPT !.orderToDelete = Some(order), !.isDeleteDialogOpen = TRUE]
    /\ UNCHANGED <<app, view, toast, net, db, sent>>

\* Cancel in the confirmation dialog (onOpenChange): orderToDelete stays.
OM_cancelDelete ==
    /\ view = "orders" /\ ~ui.isLoading /\ ui.isDeleteDialogOpen
    /\ ui' = [ui EXCEPT !.isDeleteDialogOpen = FALSE]
    /\ UNCHANGED <<app, view, toast, net, db, sent>>

\* handleConfirmDelete up to its await.
OM_handleConfirmDelete ==
    /\ view = "orders" /\ ~ui.isLoading /\ ui.isDeleteDialogOpen
    /\ IsSome(ui.orderToDelete)
    /\ sent < MaxWrites
    /\ sent' = sent + 1
    /\ net' = net (+) Send([op |-> "deleteOrder", id |-> The(ui.orderToDelete).orderId])
    /\ UNCHANGED <<app, view, ui, toast, db>>

OM_handleConfirmDeleteOk ==
    /\ view = "orders"
    /\ \E r \in InFlight({"deleteOrder"}) :
        /\ db' = Deleted("orders", "orderId", r.id)
        /\ toast' = "Order deleted successfully!"
        /\ ui' = [ui EXCEPT !.isDeleteDialogOpen = FALSE, !.orderToDelete = None,
                            !.isLoading = TRUE]
        /\ net' = (net (-) Send(r)) (+) Send([op |-> "getOrders"])
    /\ UNCHANGED <<app, view, sent>>

OM_handleConfirmDeleteFail ==
    /\ view = "orders"
    /\ \E r \in InFlight({"deleteOrder"}) :
        /\ toast' = "Failed to delete order"
        /\ net' = net (-) Send(r)
    /\ UNCHANGED <<app, view, ui, db, sent>>

\* The Products manager of another session deletes a product: the backend
\* removes it and keeps the orders that reference it.
ProductDeletedElsewhere ==
    /\ view = "orders"
    /\ \E i \in DOMAIN db.products :
        db' = Deleted("products", "productId", db.products[i].productId)
    /\ UNCHANGED <<app, view, ui, toast, net, sent>>

\* The user leaves the Orders view and comes back: the component is mounted
\* anew, and the responses to the old instance's loads are dropped.
OM_mount ==
    /\ view = "orders"
    /\ InFlight({"createOrder", "updateOrder", "deleteOrder"}) = {}
    /\ ui' = OM_InitState
    /\ net' = Send([op |-> "getOrders"]) (+) Send([op |-> "getProducts"])
    /\ UNCHANGED <<app, view, toast, db, sent>>

OM_Next ==
    \/ OM_loadOrdersOk \/ OM_loadOrdersFail \/ OM_loadProducts
    \/ OM_handleOpenDialog \/ OM_handleCloseDialog \/ OM_setFormData
    \/ OM_handleViewOrder \/ OM_closeView
    \/ OM_handleSubmit \/ OM_handleSubmitOk \/ OM_handleSubmitFail
    \/ OM_handleDeleteClick \/ OM_cancelDelete
    \/ OM_handleConfirmDelete \/ OM_handleConfirmDeleteOk \/ OM_handleConfirmDeleteFail
    \/ ProductDeletedElsewhere \/ OM_mount

OM_Init ==
    /\ app \in {LoggedIn(mockUsers[1]), LoggedIn(mockUsers[3])}
    /\ view = "orders" /\ ui = OM_InitState
    /\ toast = "" /\ db = SeedDb /\ sent = 0
    /\ net = Send([op |-> "getOrders"]) (+) Send([op |-> "getProducts"])

\* ------------------------------------- OrdersManager (keeping its own list)

initialOrders ==
    << [id |-> "1", orderNumber |-> "BAO-2025-001", customer |-> "Juan Dela Cruz",
        email |-> "juan.delacruz@rtu.edu.ph", product |-> "RTU Student ID Card",
        quantity |-> 1, total |-> 150, status |-> "delivered", date |-> "2025-10-28"],
       [id |-> "2", orderNumber |-> "BAO-2025-002", customer |-> "Maria Santos",
        email |-> "maria.santos@rtu.edu.ph", product |-> "University Uniform (Female)",
        quantity |-> 2, total |-> 1700, status |-> "shipped", date |-> "2025-11-01"],
       [id |-> "3", orderNumber |-> "BAO-2025-003", customer |-> "Pedro Reyes",
        email |-> "pedro.reyes@rtu.edu.ph", product |-> "Certificate of Enrollment",
        quantity |-> 3, total |-> 150, status |-> "processing", date |-> "2025-11-02"],
       [id |-> "4", orderNumber |-> "BAO-2025-004", customer |-> "Anna Cruz",
        email |-> "anna.cruz@rtu.edu.ph", product |-> "Transcript of Records",
        quantity |-> 2, total |-> 200, status |-> "pending", date |-> "2025-11-04"],
       [id |-> "5", orderNumber |-> "BAO-2025-005", customer |-> "Carlo Mendoza",
        email |-> "carlo.mendoza@rtu.edu.ph", product |-> "PE Uniform Set",
        quantity |-> 1, total |-> 450, status |-> "cancelled", date |-> "2025-10-30"] >>

MO_EmptyForm ==
    [customer |-> "", email |-> "", product |-> "", quantity |-> 1, total |-> 0,
     status |-> "pending", date |-> Today]

MO_FormPool ==
    { [customer |-> "Ana Cruz", email |-> "ana.cruz@rtu.edu.ph", product |-> "Lanyard",
       quantity |-> 2, total |-> 100, status |-> "pending", date |-> Today] }

\* Date.now().toString(): the readings of the clock, which never goes back.
MO_NowPool == {"1762214400000", "1762214460000"}

MO_InitState ==
    [orders |-> initialOrders, searchTerm |-> "", statusFilter |-> "all",
     isDialogOpen |-> FALSE, isViewDialogOpen |-> FALSE,
     editingOrder |-> None, viewingOrder |-> None, formData |-> MO_EmptyForm]

\* String.prototype.padStart(n, "0")
RECURSIVE padStart(_, _)
padStart(str, n) == IF Len(str) >= n THEN str ELSE padStart("0" \o str, n)

\* filteredOrders searching the number an order has by its place in the
\* list, as handleSubmit numbers a new order, instead of its orderNumber.
MO_filteredOrdersByPlace(orders, searchTerm, statusFilter) ==
    LET place(order) == CHOOSE i \in DOMAIN orders : orders[i] = order
    IN  SelectSeq(orders, LAMBDA order :
            /\ \/ includes(toLowerCase("BAO-2025-" \o padStart(ToString(place(order)), 3)),
                           toLowerCase(searchTerm))
               \/ includes(toLowerCase(order.customer), toLowerCase(searchTerm))
               \/ includes(toLowerCase(order.email), toLowerCase(searchTerm))
               \/ includes(toLowerCase(order.product), toLowerCase(searchTerm))
            /\ statusFilter = "all" \/ order.status = statusFilter)

MO_filteredOrders(orders, searchTerm, statusFilter) ==
    SelectSeq(orders, LAMBDA order :
        /\ \/ includes(toLowerCase(order.orderNumber), toLowerCase(searchTerm))
           \/ includes(toLowerCase(order.customer), toLowerCase(searchTerm))
           \/ includes(toLowerCase(order.email), toLowerCase(searchTerm))
           \/ includes(toLowerCase(order.product), toLowerCase(searchTerm))
        /\ statusFilter = "all" \/ order.status = statusFilter)

MO_Rows ==
    IF ui.isDialogOpen \/ ui.isViewDialogOpen THEN {}
    ELSE LET shown == MO_filteredOrders(ui.orders, ui.searchTerm, ui.statusFilter)
         IN  {shown[i] : i \in DOMAIN shown}

MO_handleOpenDialog ==
    /\ view = "ordersLocal" /\ ~ui.isDialogOpen /\ ~ui.isViewDialogOpen
    /\ \/ ui' = [ui EXCEPT !.editingOrder = None, !.formData = MO_EmptyForm,
                           !.isDialogOpen = TRUE]
       \/ \E order \in MO_Rows :
            ui' = [ui EXCEPT !.editingOrder = Some(order),
                             !.formData = [customer |-> order.customer,
                                           email |-> order.email,
                                           product |-> order.product,
                                           quantity |-> order.quantity,
                                           total |-> order.total,
                                           status |-> order.status,
                                           date |-> order.date],
                             !.isDialogOpen = TRUE]
    /\ UNCHANGED <<app, view, toast, net, db, sent>>

\* Cancel (handleCloseDialog), and the dialog's own close (onOpenChange).
MO_handleCloseDialog ==
    /\ view = "ordersLocal" /\ ui.isDialogOpen
    /\ \/ ui' = [ui EXCEPT !.isDialogOpen = FALSE, !.editingOrder = None]
       \/ ui' = [ui EXCEPT !.isDialogOpen = FALSE]
    /\ UNCHANGED <<app, view, toast, net, db, sent>>

MO_setFormData ==
    /\ view = "ordersLocal" /\ ui.isDialogOpen
    /\ \E f \in MO_FormPool : f # ui.formData /\ ui' = [ui EXCEPT !.formData = f]
    /\ UNCHANGED <<app, view, toast, net, db, sent>>

\* handleSubmit: the edit replaces the order in the list, the creation
\* appends one; then handleCloseDialog.
MO_handleSubmit ==
    /\ view = "ordersLocal" /\ ui.isDialogOpen
    /\ sent < MaxWrites
    /\ sent' = sent + 1
    /\ IF IsSome(ui.editingOrder)
       THEN /\ ui' = [ui EXCEPT
                        !.orders = [i \in DOMAIN @ |->
                            IF @[i].id = The(ui.editingOrder).id
                            THEN ui.formData @@ [id |-> @[i].id,
                                                 orderNumber |-> @[i].orderNumber]
                            ELSE @[i]],
                        !.isDialogOpen = FALSE, !.editingOrder = None]
            /\ toast' = "Order updated successfully!"
       ELSE /\ \E now \in MO_NowPool :
                /\ \A i \in DOMAIN ui.orders : ui.orders[i].id # now
                /\ ui' = [ui EXCEPT
                            !.orders = Append(@, ui.formData @@
                                [id |-> now,
                                 orderNumber |-> "BAO-2025-" \o
                                     padStart(ToString(Len(ui.orders) + 1), 3)]),
                            !.isDialogOpen = FALSE, !.editingOrder = None]
            /\ toast' = "Order placed successfully!"
    /\ UNCHANGED <<app, view, net, db>>

MO_handleViewOrder ==
    /\ view = "ordersLocal"
    /\ \E order \in MO_Rows :
        ui' = [ui EXCEPT !.viewingOrder = Some(order), !.isViewDialogOpen = TRUE]
    /\ UNCHANGED <<app, view, toast, net, db, sent>>

MO_closeView ==
    /\ view = "ordersLocal" /\ ui.isViewDialogOpen
    /\ ui' = [ui EXCEPT !.isViewDialogOpen = FALSE]
    /\ UNCHANGED <<app, view, toast, net, db, sent>>

\* handleDelete, the onClick of a row's delete button.
MO_handleDelete ==
    /\ view = "ordersLocal"
    /\ sent < MaxWrites
    /\ sent' = sent + 1
    /\ \E order \in MO_Rows :
        ui' = [ui EXCEPT !.orders = SelectSeq(@, LAMBDA o : o.id # order.id)]
    /\ toast' = "Order deleted successfully!"
    /\ UNCHANGED <<app, view, net, db>>

MO_Next ==
    \/ MO_handleOpenDialog \/ MO_handleCloseDialog \/ MO_setFormData
    \/ MO_handleSubmit \/ MO_handleViewOrder \/ MO_closeView \/ MO_handleDelete

MO_Init ==
    /\ app = LoggedIn(mockUsers[1]) /\ view = "ordersLocal" /\ ui = MO_InitState
    /\ toast = "" /\ net = EmptyBag /\ db = SeedDb /\ sent = 0

\* ------------------------------------------------------------ the managers

Init == UM_Init \/ PM_Init \/ OM_Init \/ MO_Init

Next == UM_Next \/ PM_Next \/ OM_Next \/ MO_Next

Spec == Init /\ [][Next]_vars

\* -------------------------------------------------------------- StudentShop

\* The largest quantity the plus button is pressed up to.
MaxOrderQuantity == 3

\* The backend when the shop is opened: a product that is not a uniform,
\* and one uniform product for each size of the male standard uniform.
ShopDb ==
    [SeedDb EXCEPT
        !.products = SeedProducts \o
            << [productId |-> 2, productName |-> "Male Standard Uniform Shirt M",
                productCategory |-> "Uniform", price |-> 350, quantity |-> 5,
                status |-> "low stock", imageUrl |-> ""],
               [productId |-> 3, productName |-> "Male Standard Uniform Shirt L",
                productCategory |-> "Uniform", price |-> 360, quantity |-> 0,
                status |-> "out of stock", imageUrl |-> ""] >>,
        !.uniforms =
            << [uniformId |-> 1, productId |-> 2, sizeType |-> "M", gender |-> "Male",
                type |-> "Standard Uniform"],
               [uniformId |-> 2, productId |-> 3, sizeType |-> "L", gender |-> "Male",
                type |-> "Standard Uniform"] >>,
        !.nextId = [students |-> 2, products |-> 4, uniforms |-> 3, orders |-> 3,
                    accounts |-> 1]]

\* GET /uniforms: every variant, with its product embedded.
UniformsResponse ==
    [i \in DOMAIN db.uniforms |->
        db.uniforms[i] @@
        [product |-> Having(db.products, "productId", db.uniforms[i].productId)[1]]]

SS_EmptyOrder == [productId |-> 0, quantity |-> 1, claimDate |-> Today, selectedSize |-> ""]

SS_InitState ==
    [products |-> <<>>, uniforms |-> <<>>, searchTerm |-> "", categoryFilter |-> "all",
     isLoading |-> TRUE, selectedUniformGroup |-> None, selectedProduct |-> None,
     showOrderModal |-> FALSE, showTicket |-> FALSE, confirmedOrder |-> None,
     orderData |-> SS_EmptyOrder]

SS_filteredProducts(products, searchTerm, categoryFilter) ==
    SelectSeq(products, LAMBDA product :
        /\ \/ includes(toLowerCase(product.productName), toLowerCase(searchTerm))
           \/ includes(toLowerCase(product.productCategory), toLowerCase(searchTerm))
        /\ categoryFilter = "all" \/ product.productCategory = categoryFilter
        /\ product.quantity > 0
        /\ product.productCategory # "Uniform")

SS_filteredUniforms(uniforms, searchTerm, categoryFilter) ==
    SelectSeq(uniforms, LAMBDA uniform :
        /\ \/ includes(toLowerCase(uniform.product.productName), toLowerCase(searchTerm))
           \/ includes(toLowerCase(uniform.type), toLowerCase(searchTerm))
        /\ categoryFilter = "all" \/ categoryFilter = "Uniform")

\* groupedUniforms: the reduce over the filtered variants; a group takes the
\* product of its first variant.  Object.values answers the groups in the
\* order their keys were first seen.
RECURSIVE SS_groupedUniforms(_)
SS_groupedUniforms(us) ==
    IF us = <<>> THEN <<>>
    ELSE LET acc == SS_groupedUniforms(SubSeq(us, 1, Len(us) - 1))
             uniform == us[Len(us)]
             key == uniform.type \o "-" \o uniform.gender
         IN  IF \A i \in DOMAIN acc : acc[i].key # key
             THEN Append(acc, [key |-> key, type |-> uniform.type,
                               gender |-> uniform.gender, product |-> uniform.product,
                               variants |-> <<uniform>>])
             ELSE [i \in DOMAIN acc |->
                     IF acc[i].key = key
                     THEN [acc[i] EXCEPT !.variants = Append(@, uniform)]
                     ELSE acc[i]]

\* The cards can be pressed: no spinner, no modal, no ticket.
SS_Browsing == ~ui.isLoading /\ ~ui.showOrderModal /\ ~ui.showTicket

Digit(c) ==
    CASE c = "0" -> 0 [] c = "1" -> 1 [] c = "2" -> 2 [] c = "3" -> 3 [] c = "4" -> 4
      [] c = "5" -> 5 [] c = "6" -> 6 [] c = "7" -> 7 [] c = "8" -> 8 [] c = "9" -> 9
      [] OTHER -> -1

\* The value of the digits str begins with, after the digits valued acc.
RECURSIVE LeadingDigits(_, _)
LeadingDigits(str, acc) ==
    IF Len(str) = 0 \/ Digit(SubSeq(str, 1, 1)) = -1 THEN acc
    ELSE LeadingDigits(SubSeq(str, 2, Len(str)), 10 * acc + Digit(SubSeq(str, 1, 1)))

\* parseInt: an optional sign, then digits; None stands for NaN.
parseInt(str) ==
    LET neg == Len(str) > 0 /\ SubSeq(str, 1, 1) = "-"
        body == IF neg THEN SubSeq(str, 2, Len(str)) ELSE str
    IN  IF Len(body) = 0 \/ Digit(SubSeq(body, 1, 1)) = -1 THEN None
        ELSE Some((IF neg THEN -1 ELSE 1) * LeadingDigits(body, 0))

\* What the user types into the quantity input.
SS_TypedPool == {"", "0", "2", "-1"}

SS_loadProductsOk ==
    /\ view = "shop"
    /\ \E r \in InFlight({"getProducts"}) :
        /\ net' = net (-) Send(r)
        /\ ui' = [ui EXCEPT !.products = db.products, !.isLoading = FALSE]
    /\ UNCHANGED <<app, view, toast, db, sent>>

SS_loadProductsFail ==
    /\ view = "shop"
    /\ \E r \in InFlight({"getProducts"}) :
        /\ net' = net (-) Send(r)
        /\ toast' = "Failed to load products"
        /\ ui' = [ui EXCEPT !.isLoading = FALSE]
    /\ UNCHANGED <<app, view, db, sent>>

\* loadUniforms: the response replaces the variants; an error status or an
\* exception changes nothing.
SS_loadUniforms ==
    /\ view = "shop"
    /\ \E r \in InFlight({"getUniforms"}) :
        /\ net' = net (-) Send(r)
        /\ \/ ui' = [ui EXCEPT !.uniforms = UniformsResponse]
           \/ UNCHANGED ui
    /\ UNCHANGED <<app, view, toast, db, sent>>

SS_handleProductOrder ==
    /\ view = "shop" /\ SS_Browsing
    /\ \E i \in DOMAIN SS_filteredProducts(ui.products, ui.searchTerm, ui.categoryFilter) :
        LET product == SS_filteredProducts(ui.products, ui.searchTerm,
                                           ui.categoryFilter)[i]
        IN  ui' = [ui EXCEPT !.selectedProduct = Some(product),
                             !.selectedUniformGroup = None,
                             !.orderData = [productId |-> product.productId,
                                            quantity |-> 1, claimDate |-> Today,
                                            selectedSize |-> ""],
                             !.showOrderModal = TRUE]
    /\ UNCHANGED <<app, view, toast, net, db, sent>>

SS_handleUniformOrder ==
    /\ view = "shop" /\ SS_Browsing
    /\ LET groups == SS_groupedUniforms(
                        SS_filteredUniforms(ui.uniforms, ui.searchTerm, ui.categoryFilter))
       IN  \E i \in DOMAIN groups :
            ui' = [ui EXCEPT !.selectedUniformGroup = Some(groups[i]),
                             !.selectedProduct = None,
                             !.orderData = [productId |-> groups[i].product.productId,
                                            quantity |-> 1, claimDate |-> Today,
                                            selectedSize |-> ""],
                             !.showOrderModal = TRUE]
    /\ UNCHANGED <<app, view, toast, net, db, sent>>

\* A size button of the order modal.
SS_selectSize ==
    /\ view = "shop" /\ ui.showOrderModal /\ IsSome(ui.selectedUniformGroup)
    /\ \E i \in DOMAIN The(ui.selectedUniformGroup).variants :
        ui' = [ui EXCEPT !.orderData.selectedSize =
                            The(ui.selectedUniformGroup).variants[i].sizeType]
    /\ UNCHANGED <<app, view, toast, net, db, sent>>

\* The minus button, the plus button and the quantity input.
SS_setQuantity ==
    /\ view = "shop" /\ ui.showOrderModal
    /\ \/ ui' = [ui EXCEPT !.orderData.quantity =
                              IF ui.orderData.quantity - 1 > 1
                              THEN ui.orderData.quantity - 1 ELSE 1]
       \/ /\ ui.orderData.quantity < MaxOrderQuantity
          /\ ui' = [ui EXCEPT !.orderData.quantity = @ + 1]
       \/ \E typed \in SS_TypedPool :
            ui' = [ui EXCEPT !.orderData.quantity =
                      IF parseInt(typed) = None \/ The(parseInt(typed)) = 0
                      THEN 1 ELSE The(parseInt(typed))]
    /\ UNCHANGED <<app, view, toast, net, db, sent>>

SS_setClaimDate ==
    /\ view = "shop" /\ ui.showOrderModal
    /\ ui' = [ui EXCEPT !.orderData.claimDate = "2025-11-20"]
    /\ UNCHANGED <<app, view, toast, net, db, sent>>

\* Cancel, or the modal dismissed.
SS_closeOrderModal ==
    /\ view = "shop" /\ ui.showOrderModal
    /\ ui' = [ui EXCEPT !.showOrderModal = FALSE]
    /\ UNCHANGED <<app, view, toast, net, db, sent>>

\* (selectedProduct?.price || selectedUniformGroup?.product.price) * quantity.
\* The modal is only open with a product or a group selected.
SS_totalAmount ==
    (IF IsSome(ui.selectedProduct) /\ The(ui.selectedProduct).price # 0
     THEN The(ui.selectedProduct).price
     ELSE The(ui.selectedUniformGroup).product.price) * ui.orderData.quantity

\* The request handleSubmitOrder sends, with what its continuation reads
\* from the render it was started in.
SS_orderRequest ==
    [op |-> "createOrder", id |-> 0,
     body |-> [productId |-> ui.orderData.productId,
               dateToClaim |-> ui.orderData.claimDate,
               amount |-> SS_totalAmount, status |-> "pending"],
     ticket |-> [productName |->
                    IF IsSome(ui.selectedProduct)
                       /\ The(ui.selectedProduct).productName # ""
                    THEN The(ui.selectedProduct).productName
                    ELSE The(ui.selectedUniformGroup).gender \o " " \o
                         The(ui.selectedUniformGroup).type,
                 quantity |-> ui.orderData.quantity,
                 totalAmount |-> SS_totalAmount,
                 claimDate |-> ui.orderData.claimDate,
                 selectedSize |-> ui.orderData.selectedSize]]

\* handleSubmitOrder with the size check left out.
SS_handleSubmitOrderUnchecked ==
    /\ view = "shop" /\ ui.showOrderModal
    /\ sent < MaxWrites
    /\ sent' = sent + 1
    /\ net' = net (+) Send(SS_orderRequest)
    /\ UNCHANGED <<app, view, ui, toast, db>>

\* handleSubmitOrder up to its await: Place Order.
SS_handleSubmitOrder ==
    /\ view = "shop" /\ ui.showOrderModal
    /\ \/ /\ IsSome(ui.selectedUniformGroup) /\ ui.orderData.selectedSize = ""
          /\ toast' = "Please select a size"
          /\ UNCHANGED <<app, view, ui, net, db, sent>>
       \/ /\ ~(IsSome(ui.selectedUniformGroup) /\ ui.orderData.selectedSize = "")
          /\ sent < MaxWrites
          /\ sent' = sent + 1
          /\ net' = net (+) Send(SS_orderRequest)
          /\ UNCHANGED <<app, view, ui, toast, db>>

\* handleSubmitOrder after its await, the request resolved.
SS_handleSubmitOrderOk ==
    /\ view = "shop"
    /\ \E r \in InFlight({"createOrder"}) :
        /\ db' = Created("orders", "orderId",
                         r.body @@ [createdAt |-> Some(0), transactions |-> <<>>])
        /\ ui' = [ui EXCEPT !.confirmedOrder =
                                Some(r.ticket @@ [orderId |-> db.nextId.orders]),
                            !.showOrderModal = FALSE, !.showTicket = TRUE,
                            !.selectedProduct = None, !.selectedUniformGroup = None]
        /\ net' = net (-) Send(r)
    /\ UNCHANGED <<app, view, toast, sent>>

\* SS_handleSubmitOrderFail with the modal closed and the selection cleared
\* as on success.
SS_handleSubmitOrderFailClosing ==
    /\ view = "shop"
    /\ \E r \in InFlight({"createOrder"}) :
        /\ toast' = "Failed to place order"
        /\ net' = net (-) Send(r)
    /\ ui' = [ui EXCEPT !.showOrderModal = FALSE, !.selectedProduct = None,
                        !.selectedUniformGroup = None]
    /\ UNCHANGED <<app, view, db, sent>>

\* handleSubmitOrder's catch.
SS_handleSubmitOrderFail ==
    /\ view = "shop"
    /\ \E r \in InFlight({"createOrder"}) :
        /\ toast' = "Failed to place order"
        /\ net' = net (-) Send(r)
    /\ UNCHANGED <<app, view, ui, db, sent>>

\* handleDownloadTicket: the PDF is saved, or saving throws.
SS_handleDownloadTicket ==
    /\ view = "shop" /\ ui.showTicket /\ IsSome(ui.confirmedOrder)
    /\ toast' \in {"Ticket downloaded as PDF!",
                   "Failed to download ticket. Please try again."}
    /\ UNCHANGED <<app, view, ui, net, db, sent>>

SS_closeTicket ==
    /\ view = "shop" /\ ui.showTicket
    /\ ui' = [ui EXCEPT !.showTicket = FALSE]
    /\ UNCHANGED <<app, view, toast, net, db, sent>>

SS_Next ==
    \/ SS_loadProductsOk \/ SS_loadProductsFail \/ SS_loadUniforms
    \/ SS_handleProductOrder \/ SS_handleUniformOrder
    \/ SS_selectSize \/ SS_setQuantity \/ SS_setClaimDate \/ SS_closeOrderModal
    \/ SS_handleSubmitOrder \/ SS_handleSubmitOrderOk \/ SS_handleSubmitOrderFail
    \/ SS_handleDownloadTicket \/ SS_closeTicket

\* The component mounted for the student: loadProducts and loadUniforms.
SS_Init ==
    /\ app = LoggedIn(mockUsers[3])
    /\ view = "shop"
    /\ ui = SS_InitState
    /\ toast = ""
    /\ net = Send([op |-> "getProducts"]) (+) Send([op |-> "getUniforms"])
    /\ db = ShopDb
    /\ sent = 0

SpecShop == SS_Init /\ [][SS_Next]_vars

\* ------------------------------------------------------- App and LoginForm

LoggedOut == [isAuthenticated |-> FALSE, currentUser |-> None, localStorage |-> None]

\* handleLogin's lookup with the password left out of the comparison.
handleLoginByEmail(email, password) ==
    LET found == SelectSeq(mockUsers, LAMBDA u : u.email = email)
    IN  IF found = <<>> THEN None ELSE Some(found[1])

\* handleLogin's lookup: mockUsers.find; None when no user matches.
handleLogin(email, password) ==
    LET found == SelectSeq(mockUsers, LAMBDA u : u.email = email /\ u.password = password)
    IN  IF found = <<>> THEN None ELSE Some(found[1])

NonSpace(c) == c \notin {" ", "\t", "\n", "\r"}

\* /\S+@\S+\.\S+/.test(s)
testEmail(s) ==
    \E i \in 2..Len(s) : \E j \in (i + 2)..(Len(s) - 1) :
        /\ SubSeq(s, i, i) = "@" /\ SubSeq(s, j, j) = "."
        /\ NonSpace(SubSeq(s, i - 1, i - 1)) /\ NonSpace(SubSeq(s, j + 1, j + 1))
        /\ \A k \in (i + 1)..(j - 1) : NonSpace(SubSeq(s, k, k))

LF_NoErrors == [email |-> None, password |-> None, general |-> None]

\* validateForm's newErrors.
validateForm(email, password) ==
    [email |-> IF email = "" THEN Some("Email is required")
               ELSE IF ~testEmail(email) THEN Some("Email is invalid") ELSE None,
     password |-> IF password = "" THEN Some("Password is required")
                  ELSE IF Len(password) < 6
                  THEN Some("Password must be at least 6 characters") ELSE None,
     general |-> None]

LF_EmptyRegisterForm ==
    [email |-> "", password |-> "", confirmPassword |-> "", role |-> "student",
     firstname |-> "", lastname |-> "", college |-> "", program |-> ""]

LF_NoRegisterErrors ==
    [email |-> None, password |-> None, confirmPassword |-> None, firstname |-> None,
     lastname |-> None, college |-> None, program |-> None, general |-> None]

\* validateRegister's newErrors.
validateRegister(f) ==
    [email |-> IF f.email = "" THEN Some("Email is required")
               ELSE IF ~testEmail(f.email) THEN Some("Email is invalid") ELSE None,
     password |-> IF f.password = "" THEN Some("Password is required")
                  ELSE IF Len(f.password) < 6
                  THEN Some("Password must be at least 6 characters") ELSE None,
     confirmPassword |-> IF f.password # f.confirmPassword
                         THEN Some("Passwords do not match") ELSE None,
     firstname |-> IF f.role = "student" /\ f.firstname = ""
                   THEN Some("First name is required") ELSE None,
     lastname |-> IF f.role = "student" /\ f.lastname = ""
                  THEN Some("Last name is required") ELSE None,
     college |-> IF f.role = "student" /\ f.college = ""
                 THEN Some("College is required") ELSE None,
     program |-> IF f.role = "student" /\ f.program = ""
                 THEN Some("Program is required") ELSE None,
     general |-> None]

LF_InitState ==
    [email |-> "", password |-> "", errors |-> LF_NoErrors, isLoading |-> FALSE,
     isRegistering |-> FALSE, registerForm |-> LF_EmptyRegisterForm,
     registerErrors |-> LF_NoRegisterErrors]

\* What the user types into the login form.
LF_EmailPool == {"", "admin", "admin@rtu.edu.ph", "student@rtu.edu.ph", "nobody@rtu.edu.ph"}

LF_PasswordPool == {"", "admin", "admin123", "student123", "wrongpass"}

\* What the user fills the registration form with.
LF_RegisterPool ==
    { [email |-> "maria@rtu.edu.ph", password |-> "maria123",
       confirmPassword |-> "maria123", role |-> "student", firstname |-> "Maria",
       lastname |-> "Santos", college |-> "CEA", program |-> "BSCE"],
      [email |-> "maria@rtu.edu.ph", password |-> "maria123",
       confirmPassword |-> "maria12", role |-> "admin", firstname |-> "",
       lastname |-> "", college |-> "", program |-> ""],
      [email |-> "boss@rtu.edu.ph", password |-> "boss1234",
       confirmPassword |-> "boss1234", role |-> "admin", firstname |-> "",
       lastname |-> "", college |-> "", program |-> ""] }

\* App's mount effect: a stored user is restored.
App_mount ==
    /\ view = "boot"
    /\ IF IsSome(app.localStorage)
       THEN /\ app' = [app EXCEPT !.currentUser = app.localStorage,
                                  !.isAuthenticated = TRUE]
            /\ view' = "dashboard"
            /\ ui' = [activeView |-> "home"]
       ELSE /\ view' = "login"
            /\ UNCHANGED <<app, ui>>
    /\ UNCHANGED <<toast, net, db, sent>>

LF_setEmail ==
    /\ view = "login" /\ ~ui.isRegistering
    /\ \E email \in LF_EmailPool : ui' = [ui EXCEPT !.email = email]
    /\ UNCHANGED <<app, view, toast, net, db, sent>>

LF_setPassword ==
    /\ view = "login" /\ ~ui.isRegistering
    /\ \E password \in LF_PasswordPool : ui' = [ui EXCEPT !.password = password]
    /\ UNCHANGED <<app, view, toast, net, db, sent>>

\* handleSubmit; onLogin answers without a request, so nothing interleaves.
LF_handleSubmit ==
    /\ view = "login" /\ ~ui.isRegistering /\ ~ui.isLoading
    /\ IF validateForm(ui.email, ui.password) # LF_NoErrors
       THEN /\ ui' = [ui EXCEPT !.errors = validateForm(ui.email, ui.password)]
            /\ UNCHANGED <<app, view>>
       ELSE IF IsSome(handleLogin(ui.email, ui.password))
       THEN /\ app' = LoggedIn(The(handleLogin(ui.email, ui.password)))
            /\ view' = "dashboard"
            /\ ui' = [activeView |-> "home"]
       ELSE /\ ui' = [ui EXCEPT !.errors = [LF_NoErrors EXCEPT
                                   !.general = Some("Invalid email or password")],
                                !.isLoading = FALSE]
            /\ UNCHANGED <<app, view>>
    /\ UNCHANGED <<toast, net, db, sent>>

\* "Create account" and "Back to Login".
LF_setIsRegistering ==
    /\ view = "login"
    /\ ui' = [ui EXCEPT !.isRegistering = ~ui.isRegistering]
    /\ UNCHANGED <<app, view, toast, net, db, sent>>

LF_setRegisterForm ==
    /\ view = "login" /\ ui.isRegistering
    /\ \E f \in LF_RegisterPool : ui' = [ui EXCEPT !.registerForm = f]
    /\ UNCHANGED <<app, view, toast, net, db, sent>>

\* handleRegister up to its await.
LF_handleRegister ==
    /\ view = "login" /\ ui.isRegistering /\ ~ui.isLoading
    /\ IF validateRegister(ui.registerForm) # LF_NoRegisterErrors
       THEN /\ ui' = [ui EXCEPT !.registerErrors = validateRegister(ui.registerForm)]
            /\ UNCHANGED <<net, sent>>
       ELSE /\ sent < MaxWrites
            /\ sent' = sent + 1
            /\ ui' = [ui EXCEPT !.registerErrors = LF_NoRegisterErrors,
                                !.isLoading = TRUE]
            /\ net' = net (+) Send(
                 [op |-> "register",
                  body |-> [email |-> ui.registerForm.email,
                            password |-> ui.registerForm.password,
                            firstname |-> IF ui.registerForm.firstname = "" THEN "User"
                                          ELSE ui.registerForm.firstname,
                            lastname |-> IF ui.registerForm.lastname = "" THEN "Account"
                                         ELSE ui.registerForm.lastname,
                            role |-> ui.registerForm.role] @@
                           (IF ui.registerForm.role = "student"
                            THEN [college |-> ui.registerForm.college,
                                  program |-> ui.registerForm.program]
                            ELSE <<>>)])
    /\ UNCHANGED <<app, view, toast, db>>

\* handleRegister after its await, the account created.
LF_handleRegisterOk ==
    /\ view = "login"
    /\ \E r \in InFlight({"register"}) :
        /\ db' = Created("accounts", "userId", r.body)
        /\ toast' = "Account created successfully! Please log in."
        /\ ui' = [ui EXCEPT !.isRegistering = FALSE,
                            !.registerForm = LF_EmptyRegisterForm,
                            !.email = r.body.email, !.password = "",
                            !.isLoading = FALSE]
        /\ net' = net (-) Send(r)
    /\ UNCHANGED <<app, view, sent>>

\* handleRegister's catch, with the message of the error thrown.
LF_handleRegisterFail ==
    /\ view = "login"
    /\ \E r \in InFlight({"register"}) :
        \E errorMessage \in {"Registration failed", "Email already registered"} :
            /\ toast' = errorMessage
            /\ ui' = [ui EXCEPT !.registerErrors = [LF_NoRegisterErrors EXCEPT
                                   !.general = Some(errorMessage)],
                                !.isLoading = FALSE]
            /\ net' = net (-) Send(r)
    /\ UNCHANGED <<app, view, db, sent>>

\* menuItems with the filter on the role left out.
menuItemsOfAnyRole(role) ==
    << [id |-> "home", roles |-> {"admin", "staff", "student"}],
       [id |-> "inventory", roles |-> {"admin", "staff"}],
       [id |-> "orders", roles |-> {"admin", "staff", "student"}],
       [id |-> "appointments", roles |-> {"admin", "staff", "student"}],
       [id |-> "users", roles |-> {"admin"}] >>

\* The menu items of the user's role.
menuItems(role) ==
    SelectSeq(<< [id |-> "home", roles |-> {"admin", "staff", "student"}],
                 [id |-> "inventory", roles |-> {"admin", "staff"}],
                 [id |-> "orders", roles |-> {"admin", "staff", "student"}],
                 [id |-> "appointments", roles |-> {"admin", "staff", "student"}],
                 [id |-> "users", roles |-> {"admin"}] >>,
              LAMBDA item : role \in item.roles)

\* A menu button of the Dashboard shell.
Dashboard_setActiveView ==
    /\ view = "dashboard"
    /\ LET items == menuItems(IF IsSome(app.currentUser)
                              THEN The(app.currentUser).role ELSE "")
       IN  \E i \in DOMAIN items : ui' = [ui EXCEPT !.activeView = items[i].id]
    /\ UNCHANGED <<app, view, toast, net, db, sent>>

\* handleLogout: the Dashboard is replaced by a fresh LoginForm.
App_handleLogout ==
    /\ view = "dashboard"
    /\ app' = LoggedOut
    /\ view' = "login"
    /\ ui' = LF_InitState
    /\ UNCHANGED <<toast, net, db, sent>>

Login_Next ==
    \/ App_mount \/ LF_setEmail \/ LF_setPassword \/ LF_handleSubmit
    \/ LF_setIsRegistering \/ LF_setRegisterForm \/ LF_handleRegister
    \/ LF_handleRegisterOk \/ LF_handleRegisterFail
    \/ Dashboard_setActiveView \/ App_handleLogout

\* The page opened, with or without a user left in local storage.
Login_Init ==
    /\ app \in {LoggedOut} \cup
               {[LoggedOut EXCEPT !.localStorage = Some(userData(mockUsers[i]))] :
                    i \in DOMAIN mockUsers}
    /\ view = "boot"
    /\ ui = LF_InitState
    /\ toast = ""
    /\ net = EmptyBag
    /\ db = SeedDb
    /\ sent = 0

SpecLogin == Login_Init /\ [][Login_Next]_vars

\* ------------------------------------------------------------ DashboardHome
\* The file holds two components of this name: the one with the sales period
\* selector and the activity feed (DH_), and one without them (DH2_).

\* A Date is the record of its local calendar fields and the minute of its
\* day.  getTime orders dates as Minutes does.
IsLeap(y) == (y % 4 = 0 /\ y % 100 # 0) \/ y % 400 = 0

DaysInMonth(y, m) ==
    IF m = 2 THEN (IF IsLeap(y) THEN 29 ELSE 28)
    ELSE IF m \in {4, 6, 9, 11} THEN 30 ELSE 31

RECURSIVE DaysBeforeMonth(_, _)
DaysBeforeMonth(y, m) ==
    IF m = 1 THEN 0 ELSE DaysBeforeMonth(y, m - 1) + DaysInMonth(y, m - 1)

\* Days from 1 January 2024 to 1 January of year y.
RECURSIVE DaysBeforeYear(_)
DaysBeforeYear(y) ==
    IF y <= 2024 THEN 0
    ELSE DaysBeforeYear(y - 1) + (IF IsLeap(y - 1) THEN 366 ELSE 365)

DayNumber(d) == DaysBeforeYear(d.year) + DaysBeforeMonth(d.year, d.month) + d.date - 1

\* 1 January 2024 was a Monday.
getDay(d) == (DayNumber(d) + 1) % 7

Minutes(d) == DayNumber(d) * 1440 + d.minute

Date(y, m, d, minute) == [year |-> y, month |-> m, date |-> d, minute |-> minute]

\* parseFloat of a decimal string, in hundredths.
parseFloat(str) ==
    LET whole == The(parseInt(str))
        dot == CHOOSE i \in 1..(Len(str) + 1) :
                   i = Len(str) + 1 \/ Digit(SubSeq(str, i, i)) = -1
        frac == IF dot <= Len(str) /\ SubSeq(str, dot, dot) = "."
                THEN SubSeq(str, dot + 1, Len(str)) ELSE ""
        isDigit(i) == Len(frac) >= i /\ Digit(SubSeq(frac, i, i)) # -1
        tenths == IF isDigit(1) THEN Digit(SubSeq(frac, 1, 1)) ELSE 0
        hundredths == IF isDigit(1) /\ isDigit(2) THEN Digit(SubSeq(frac, 2, 2)) ELSE 0
    IN  whole * 100 + tenths * 10 + hundredths

\* The moments the dashboard is opened at: a Tuesday, a Saturday, and a
\* New Year's Day whose week began in the year before.
DH_NowPool ==
    {Date(2025, 11, 4, 600), Date(2025, 11, 8, 1380), Date(2026, 1, 1, 30)}

\* The orders there have been, but for their status.
DH_OrderPool ==
    << [orderId |-> 1, productId |-> 1, dateToClaim |-> "2024-12-31", amount |-> "75.50",
        createdAt |-> Some(Date(2024, 12, 30, 540))],
       [orderId |-> 2, productId |-> 1, dateToClaim |-> "2025-01-02", amount |-> "350",
        createdAt |-> Some(Date(2025, 1, 1, 0))],
       [orderId |-> 3, productId |-> 1, dateToClaim |-> "2025-11-05", amount |-> "50.00",
        createdAt |-> Some(Date(2025, 11, 2, 0))],
       [orderId |-> 4, productId |-> 1, dateToClaim |-> "2025-11-06", amount |-> "15",
        createdAt |-> Some(Date(2025, 11, 4, 480))],
       [orderId |-> 5, productId |-> 1, dateToClaim |-> "2025-11-06", amount |-> "20",
        createdAt |-> None],
       [orderId |-> 6, productId |-> 1, dateToClaim |-> "2026-01-05", amount |-> "10",
        createdAt |-> Some(Date(2025, 12, 30, 700))] >>

DH_StatusPool == {"pending", "claimed"}

DH_Products ==
    SeedProducts \o
    << [productId |-> 2, productName |-> "Pad Paper", productCategory |-> "Supplies",
        price |-> 20, quantity |-> 9, status |-> "low stock", imageUrl |-> ""],
       [productId |-> 3, productName |-> "Folder", productCategory |-> "Supplies",
        price |-> 10, quantity |-> 10, status |-> "low stock", imageUrl |-> ""] >>

DH_ActivityLogs ==
    << [description |-> "Order #4 status changed to claimed", entityType |-> "order",
        createdAt |-> Date(2025, 11, 4, 590)],
       [description |-> "Product Folder created", entityType |-> "product",
        createdAt |-> Date(2024, 12, 30, 500)] >>

\* The backend and the wall clock at the moment now: the orders created by
\* then, each with the status of statusOf, and the log entries written by then.
DH_Db(now, statusOf) ==
    [SeedDb EXCEPT
        !.products = DH_Products,
        !.orders = SelectSeq(
            [i \in DOMAIN DH_OrderPool |-> DH_OrderPool[i] @@ [status |-> statusOf[i]]],
            LAMBDA o : o.createdAt = None \/ Minutes(The(o.createdAt)) <= Minutes(now)),
        !.nextId = [@ EXCEPT !.products = 4, !.orders = 7]] @@
    [now |-> now,
     activityLogs |-> SelectSeq(DH_ActivityLogs,
                                LAMBDA log : Minutes(log.createdAt) <= Minutes(now))]

\* filterOrdersByPeriod, with the salesPeriod of the render it was made in.
filterOrdersByPeriod(orders, salesPeriod, now) ==
    LET today == Date(now.year, now.month, now.date, 0)
        thisWeekStart == Minutes(today) - getDay(today) * 1440
        thisMonthStart == Date(now.year, now.month, 1, 0)
        thisYearStart == Date(now.year, 1, 1, 0)
    IN  SelectSeq(orders, LAMBDA order :
            IF salesPeriod = "all" THEN TRUE
            ELSE IF order.createdAt = None THEN FALSE
            ELSE LET orderDate == Minutes(The(order.createdAt))
                 IN  CASE salesPeriod = "today" -> orderDate >= Minutes(today)
                       [] salesPeriod = "week" -> orderDate >= thisWeekStart
                       [] salesPeriod = "month" -> orderDate >= Minutes(thisMonthStart)
                       [] salesPeriod = "year" -> orderDate >= Minutes(thisYearStart)
                       [] OTHER -> TRUE)

\* orders.reduce((sum, order) => sum + parseFloat(order.amount.toString()), 0)
RECURSIVE DH_sumAmounts(_)
DH_sumAmounts(orders) ==
    IF orders = <<>> THEN 0
    ELSE DH_sumAmounts(SubSeq(orders, 1, Len(orders) - 1))
         + parseFloat(orders[Len(orders)].amount)

\* The sort key of recentOrders: getTime of createdAt, 0 without one.
DH_createdKey(order) ==
    IF order.createdAt = None THEN 0 ELSE Minutes(The(order.createdAt))

\* [...orders].sort((a, b) => dateB - dateA): a stable sort, latest first.
RECURSIVE DH_sortRecent(_)
DH_sortRecent(orders) ==
    IF orders = <<>> THEN <<>>
    ELSE LET sorted == DH_sortRecent(SubSeq(orders, 1, Len(orders) - 1))
             o == orders[Len(orders)]
             before == SelectSeq(sorted, LAMBDA x : DH_createdKey(x) >= DH_createdKey(o))
             after == SelectSeq(sorted, LAMBDA x : DH_createdKey(x) < DH_createdKey(o))
         IN  before \o <<o>> \o after

\* slice(0, n)
slice(s, n) == SubSeq(s, 1, IF Len(s) < n THEN Len(s) ELSE n)

\* The sales data the other component derives: no period, and the statuses
\* "delivered" and "completed".
DH2_salesData(orders) ==
    LET completedOrders == SelectSeq(orders, LAMBDA o :
                               toLowerCase(o.status) \in {"delivered", "completed"})
    IN  [totalRevenue |-> DH_sumAmounts(completedOrders),
         completedOrders |-> Len(completedOrders),
         averageOrderValue |-> IF Len(completedOrders) > 0
                               THEN <<DH_sumAmounts(completedOrders), Len(completedOrders)>>
                               ELSE <<0, 1>>,
         recentOrders |-> slice(DH_sortRecent(orders), 5)]

\* The sales data loadDashboardData derives from the orders fetched; the
\* average is kept as the pair of the sum and the count it is the quotient of.
DH_salesData(orders, salesPeriod, now) ==
    LET completedOrders == SelectSeq(orders, LAMBDA o : toLowerCase(o.status) = "claimed")
        filteredCompletedOrders == filterOrdersByPeriod(completedOrders, salesPeriod, now)
    IN  [totalRevenue |-> DH_sumAmounts(filteredCompletedOrders),
         completedOrders |-> Len(filteredCompletedOrders),
         averageOrderValue |-> IF Len(filteredCompletedOrders) > 0
                               THEN <<DH_sumAmounts(filteredCompletedOrders),
                                      Len(filteredCompletedOrders)>>
                               ELSE <<0, 1>>,
         recentOrders |-> slice(DH_sortRecent(orders), 5)]

\* getTimeAgo, the differences floored as the code floors them.
getTimeAgo(date, now) ==
    LET diffMins == Minutes(now) - Minutes(date)
        diffHours == diffMins \div 60
        diffDays == diffMins \div 1440
    IN  IF diffMins < 1 THEN "Just now"
        ELSE IF diffMins < 60
        THEN ToString(diffMins) \o " minute" \o (IF diffMins > 1 THEN "s" ELSE "") \o " ago"
        ELSE IF diffHours < 24
        THEN ToString(diffHours) \o " hour" \o (IF diffHours > 1 THEN "s" ELSE "") \o " ago"
        ELSE IF diffDays < 7
        THEN ToString(diffDays) \o " day" \o (IF diffDays > 1 THEN "s" ELSE "") \o " ago"
        ELSE ToString(date.month) \o "/" \o ToString(date.date) \o "/" \o ToString(date.year)

DH_InitState ==
    [stats |-> [inventoryItems |-> 0, pendingOrders |-> 0, lowStockItems |-> 0],
     salesData |-> [totalRevenue |-> 0, completedOrders |-> 0,
                    averageOrderValue |-> <<0, 1>>, recentOrders |-> <<>>],
     recentActivity |-> <<>>, isLoading |-> TRUE, salesPeriod |-> "all"]

DH2_InitState ==
    [stats |-> [inventoryItems |-> 0, pendingOrders |-> 0, appointments |-> 0,
                lowStockItems |-> 0],
     salesData |-> [totalRevenue |-> 0, completedOrders |-> 0,
                    averageOrderValue |-> <<0, 1>>, recentOrders |-> <<>>],
     isLoading |-> TRUE]

\* loadDashboardData, first await answered: the products are counted and
\* the orders asked for.
DH_getProductsOk ==
    /\ view \in {"home", "home2"}
    /\ \E r \in InFlight({"getProducts"}) :
        net' = (net (-) Send(r)) (+) Send(
                 [op |-> "getOrders", salesPeriod |-> r.salesPeriod,
                  inventoryCount |-> Len(db.products),
                  lowStock |-> Len(SelectSeq(db.products, LAMBDA p : p.quantity < 10))])
    /\ UNCHANGED <<app, view, ui, toast, db, sent>>

\* Second await answered: the activity log is asked for.  The function that
\* fetches it is not among the sources.
DH_getOrdersOk ==
    /\ view = "home"
    /\ \E r \in InFlight({"getOrders"}) :
        net' = (net (-) Send(r)) (+) Send(
                 [op |-> "getActivityLogs", limit |-> 5, salesPeriod |-> r.salesPeriod,
                  inventoryCount |-> r.inventoryCount, lowStock |-> r.lowStock,
                  orders |-> db.orders])
    /\ UNCHANGED <<app, view, ui, toast, db, sent>>

\* Third await answered: the statistics, the sales data and the feed are set.
DH_getActivityLogsOk ==
    /\ view = "home"
    /\ \E r \in InFlight({"getActivityLogs"}) :
        /\ ui' = [ui EXCEPT
              !.stats = [inventoryItems |-> r.inventoryCount,
                         pendingOrders |-> Len(SelectSeq(r.orders, LAMBDA o :
                                               toLowerCase(o.status) = "pending")),
                         lowStockItems |-> r.lowStock],
              !.salesData = DH_salesData(r.orders, r.salesPeriod, db.now),
              !.recentActivity =
                  [i \in DOMAIN slice(db.activityLogs, r.limit) |->
                      [action |-> db.activityLogs[i].description,
                       time |-> getTimeAgo(db.activityLogs[i].createdAt, db.now),
                       type |-> db.activityLogs[i].entityType]],
              !.isLoading = FALSE]
        /\ net' = net (-) Send(r)
    /\ UNCHANGED <<app, view, toast, db, sent>>

\* loadDashboardData's catch and finally: whichever request fails, nothing
\* is set but isLoading.
DH_loadFail ==
    /\ view \in {"home", "home2"}
    /\ \E r \in InFlight({"getProducts", "getOrders", "getActivityLogs"}) :
        /\ ui' = [ui EXCEPT !.isLoading = FALSE]
        /\ net' = net (-) Send(r)
    /\ UNCHANGED <<app, view, toast, db, sent>>

\* The sales period select; it is rendered once nothing is loading, and a
\* changed period runs the effect: loadDashboardData.
DH_setSalesPeriod ==
    /\ view = "home" /\ ~ui.isLoading
    /\ \E p \in {"all", "today", "week", "month", "year"} :
        /\ p # ui.salesPeriod
        /\ ui' = [ui EXCEPT !.salesPeriod = p, !.isLoading = TRUE]
        /\ net' = net (+) Send([op |-> "getProducts", salesPeriod |-> p])
    /\ UNCHANGED <<app, view, toast, db, sent>>

\* The other component's loadDashboardData, second await answered.
DH2_getOrdersOk ==
    /\ view = "home2"
    /\ \E r \in InFlight({"getOrders"}) :
        /\ ui' = [ui EXCEPT
              !.stats = [inventoryItems |-> r.inventoryCount,
                         pendingOrders |-> Len(SelectSeq(db.orders, LAMBDA o :
                                               toLowerCase(o.status) = "pending")),
                         appointments |-> 0,
                         lowStockItems |-> r.lowStock],
              !.salesData = DH2_salesData(db.orders),
              !.isLoading = FALSE]
        /\ net' = net (-) Send(r)
    /\ UNCHANGED <<app, view, toast, db, sent>>

\* Another session changes the status of an order.
OrderStatusChangedElsewhere ==
    /\ view \in {"home", "home2"}
    /\ sent < MaxWrites
    /\ sent' = sent + 1
    /\ \E i \in DOMAIN db.orders : \E status \in DH_StatusPool :
        /\ status # db.orders[i].status
        /\ db' = [db EXCEPT !.orders[i].status = status]
    /\ UNCHANGED <<app, view, ui, toast, net>>

DH_Next ==
    \/ DH_getProductsOk \/ DH_getOrdersOk \/ DH_getActivityLogsOk \/ DH_loadFail
    \/ DH_setSalesPeriod \/ DH2_getOrdersOk \/ OrderStatusChangedElsewhere

\* Either component mounted for the administrator: loadDashboardData.
DH_Init ==
    /\ app = LoggedIn(mockUsers[1])
    /\ view \in {"home", "home2"}
    /\ ui = IF view = "home" THEN DH_InitState ELSE DH2_InitState
    /\ toast = ""
    /\ net = Send([op |-> "getProducts", salesPeriod |-> "all"])
    /\ \E now \in DH_NowPool : \E statusOf \in [DOMAIN DH_OrderPool -> DH_StatusPool] :
        db = DH_Db(now, statusOf)
    /\ sent = 0

SpecDashboard == DH_Init /\ [][DH_Next]_vars

\* ------------------------------------------- the search boxes and the filters
\* No handler reads a search term or a filter: they decide which rows are
\* rendered.  They are exercised on their own, over loaded lists.

\* The longest list loaded, and the largest quantity of a product in it.
MaxLen == 2

MaxQuantity == 12

\* The lists of at most MaxLen different records of pool.
Lists(pool) ==
    {l \in UNION {[1..n -> pool] : n \in 0..MaxLen} :
        \A i, j \in DOMAIN l : i # j => l[i] # l[j]}

FL_Students ==
    {SeedStudents[1],
     [studentId |-> 2, firstname |-> "Ana", lastname |-> "Cruz",
      college |-> "CEA", program |-> "BSCE"],
     [studentId |-> 3, firstname |-> "Cruz", lastname |-> "Bautista",
      college |-> "CBA", program |-> "BSBA"]}

\* One product of every quantity, supplies and uniforms in turn.
FL_Products ==
    {[productId |-> q + 1,
      productName |-> IF q % 2 = 0 THEN "Ballpen" ELSE "PE Uniform",
      productCategory |-> IF q % 2 = 0 THEN "Supplies" ELSE "Uniform",
      price |-> 15, quantity |-> q, status |-> getStatus(q), imageUrl |-> ""] :
        q \in 0..MaxQuantity}

\* Orders of the user, of another student, of nobody, and of a student whose
\* name contains the user's.
FL_Orders ==
    {SeedOrders[1], SeedOrders[2],
     [orderId |-> 12, productId |-> 1, dateToClaim |-> "2025-11-14",
      status |-> "Claimed", amount |-> 30, createdAt |-> Some(0),
      transactions |-> <<>>],
     [orderId |-> 3, productId |-> 1, dateToClaim |-> "2025-11-15",
      status |-> "pending", amount |-> 45, createdAt |-> Some(0),
      transactions |-> << [student |-> None],
                          [student |-> Some([firstname |-> "Don Juan",
                                             lastname |-> "dela cruz"])] >>]}

FL_Uniforms ==
    [i \in 1..2 |->
        ShopDb.uniforms[i] @@
        [product |-> Having(ShopDb.products, "productId", ShopDb.uniforms[i].productId)[1]]]

UM_setSearchTerm ==
    /\ view = "users"
    /\ \E term \in {"", "cruz", "CBA", "bs"} : ui' = [ui EXCEPT !.searchTerm = term]
    /\ UNCHANGED <<app, view, toast, net, db, sent>>

\* The search box, the category select (the categories of the list) and the
\* status select of the inventory.
PM_setFilters ==
    /\ view = "inventory" /\ ~ui.isLoading
    /\ \/ \E term \in {"", "pen", "UNI"} : ui' = [ui EXCEPT !.searchTerm = term]
       \/ \E category \in {"all"} \cup
                          {ui.products[i].productCategory : i \in DOMAIN ui.products} :
            ui' = [ui EXCEPT !.categoryFilter = category]
       \/ \E status \in {"all", "in stock", "low stock", "out of stock"} :
            ui' = [ui EXCEPT !.statusFilter = status]
    /\ UNCHANGED <<app, view, toast, net, db, sent>>

OM_setFilters ==
    /\ view = "orders" /\ ~ui.isLoading
    /\ \/ \E term \in {"", "1", "2"} : ui' = [ui EXCEPT !.searchTerm = term]
       \/ \E status \in {"all", "pending", "claimed"} :
            ui' = [ui EXCEPT !.statusFilter = status]
    /\ UNCHANGED <<app, view, toast, net, db, sent>>

MO_setFilters ==
    /\ view = "ordersLocal"
    /\ \/ \E term \in {"", "bao-2025-001", "002", "Maria"} : ui' = [ui EXCEPT !.searchTerm = term]
       \/ \E status \in {"all", "pending", "delivered"} :
            ui' = [ui EXCEPT !.statusFilter = status]
    /\ UNCHANGED <<app, view, toast, net, db, sent>>

\* The search box and the category select of the shop: "all", "Uniform" and
\* the categories of the products that are not uniforms.
SS_setFilters ==
    /\ view = "shop" /\ ~ui.isLoading
    /\ \/ \E term \in {"", "pen", "Standard"} : ui' = [ui EXCEPT !.searchTerm = term]
       \/ \E category \in {"all", "Uniform"} \cup
                          {ui.products[i].productCategory : i \in
                              {j \in DOMAIN ui.products :
                                  ui.products[j].productCategory # "Uniform"}} :
            ui' = [ui EXCEPT !.categoryFilter = category]
    /\ UNCHANGED <<app, view, toast, net, db, sent>>

FL_Next ==
    UM_setSearchTerm \/ PM_setFilters \/ OM_setFilters \/ MO_setFilters \/ SS_setFilters

\* A component with its list loaded, nothing in flight and no dialog open.
FL_Init ==
    /\ toast = "" /\ net = EmptyBag /\ sent = 0
    /\ \/ /\ view = "users" /\ app = LoggedIn(mockUsers[1])
          /\ \E l \in Lists(FL_Students) :
                /\ db = [SeedDb EXCEPT !.students = l]
                /\ ui = [UM_InitState EXCEPT !.students = l, !.isLoading = FALSE]
       \/ /\ view = "inventory" /\ app = LoggedIn(mockUsers[1])
          /\ \E l \in Lists(FL_Products) :
                /\ db = [SeedDb EXCEPT !.products = l]
                /\ ui = [PM_InitState EXCEPT !.products = l, !.isLoading = FALSE]
       \/ /\ view = "orders" /\ app \in {LoggedIn(mockUsers[1]), LoggedIn(mockUsers[3])}
          /\ \E l \in Lists(FL_Orders) :
                /\ db = [SeedDb EXCEPT !.orders = l]
                /\ ui = [OM_InitState EXCEPT !.orders = l, !.products = db.products,
                                             !.isLoading = FALSE]
       \/ /\ view = "ordersLocal" /\ app = LoggedIn(mockUsers[1])
          /\ db = SeedDb
          /\ \E l \in Lists({initialOrders[i] : i \in DOMAIN initialOrders}) :
                ui = [MO_InitState EXCEPT !.orders = l]
       \/ /\ view = "shop" /\ app = LoggedIn(mockUsers[3])
          /\ \E l \in Lists(FL_Products) : \E n \in 0..2 :
                /\ db = [ShopDb EXCEPT !.products = l]
                /\ ui = [SS_InitState EXCEPT !.products = l,
                                             !.uniforms = SubSeq(FL_Uniforms, 1, n),
                                             !.isLoading = FALSE]

SpecFilters == FL_Init /\ [][FL_Next]_vars

\* ----------------------------------------------- two students in the shop

\* The students who have the shop open at the same time.
Clients == {"first", "second"}

\* The backend with one ballpen left and no uniform.
Shops_Db ==
    [SeedDb EXCEPT
        !.products = << [productId |-> 1, productName |-> "Ballpen",
                         productCategory |-> "Supplies", price |-> 15, quantity |-> 1,
                         status |-> "low stock", imageUrl |-> ""] >>,
        !.orders = <<>>,
        !.nextId = [@ EXCEPT !.products = 2, !.orders = 1]]

Shops_loadProductsOk(c) ==
    /\ view = "shops"
    /\ \E r \in InFlight({"getProducts"}) :
        /\ r.client = c
        /\ net' = net (-) Send(r)
        /\ ui' = [ui EXCEPT ![c].products = db.products, ![c].isLoading = FALSE]
    /\ UNCHANGED <<app, view, toast, db, sent>>

Shops_loadProductsFail(c) ==
    /\ view = "shops"
    /\ \E r \in InFlight({"getProducts"}) :
        /\ r.client = c
        /\ net' = net (-) Send(r)
        /\ toast' = [toast EXCEPT ![c] = "Failed to load products"]
        /\ ui' = [ui EXCEPT ![c].isLoading = FALSE]
    /\ UNCHANGED <<app, view, db, sent>>

Shops_loadUniforms(c) ==
    /\ view = "shops"
    /\ \E r \in InFlight({"getUniforms"}) :
        /\ r.client = c
        /\ net' = net (-) Send(r)
    /\ UNCHANGED <<app, view, ui, toast, db, sent>>

Shops_handleProductOrder(c) ==
    /\ view = "shops"
    /\ ~ui[c].isLoading /\ ~ui[c].showOrderModal /\ ~ui[c].showTicket
    /\ LET shown == SS_filteredProducts(ui[c].products, ui[c].searchTerm,
                                        ui[c].categoryFilter)
       IN  \E i \in DOMAIN shown :
            ui' = [ui EXCEPT ![c].selectedProduct = Some(shown[i]),
                             ![c].selectedUniformGroup = None,
                             ![c].orderData = [productId |-> shown[i].productId,
                                               quantity |-> 1, claimDate |-> Today,
                                               selectedSize |-> ""],
                             ![c].showOrderModal = TRUE]
    /\ UNCHANGED <<app, view, toast, net, db, sent>>

\* The minus button and the plus button.
Shops_setQuantity(c) ==
    /\ view = "shops" /\ ui[c].showOrderModal
    /\ \/ /\ ui[c].orderData.quantity > 1
          /\ ui' = [ui EXCEPT ![c].orderData.quantity = @ - 1]
       \/ /\ ui[c].orderData.quantity < MaxOrderQuantity
          /\ ui' = [ui EXCEPT ![c].orderData.quantity = @ + 1]
    /\ UNCHANGED <<app, view, toast, net, db, sent>>

Shops_closeOrderModal(c) ==
    /\ view = "shops" /\ ui[c].showOrderModal
    /\ ui' = [ui EXCEPT ![c].showOrderModal = FALSE]
    /\ UNCHANGED <<app, view, toast, net, db, sent>>

\* The createOrder request of c, with what its continuation reads.
Shops_orderRequest(c) ==
    LET totalAmount == The(ui[c].selectedProduct).price * ui[c].orderData.quantity
    IN  [op |-> "createOrder", client |-> c,
         body |-> [productId |-> ui[c].orderData.productId,
                   dateToClaim |-> ui[c].orderData.claimDate,
                   amount |-> totalAmount, status |-> "pending"],
         ticket |-> [productName |-> The(ui[c].selectedProduct).productName,
                     quantity |-> ui[c].orderData.quantity,
                     totalAmount |-> totalAmount,
                     claimDate |-> ui[c].orderData.claimDate,
                     selectedSize |-> ui[c].orderData.selectedSize]]

\* handleSubmitOrder refusing a quantity above the stock it loaded.
Shops_handleSubmitOrderChecked(c) ==
    /\ view = "shops" /\ ui[c].showOrderModal /\ IsSome(ui[c].selectedProduct)
    /\ ui[c].orderData.quantity <= The(ui[c].selectedProduct).quantity
    /\ sent[c] < MaxWrites
    /\ sent' = [sent EXCEPT ![c] = @ + 1]
    /\ net' = net (+) Send(Shops_orderRequest(c))
    /\ UNCHANGED <<app, view, ui, toast, db>>

\* handleSubmitOrder up to its await; no uniform group is selected here.
Shops_handleSubmitOrder(c) ==
    /\ view = "shops" /\ ui[c].showOrderModal /\ IsSome(ui[c].selectedProduct)
    /\ sent[c] < MaxWrites
    /\ sent' = [sent EXCEPT ![c] = @ + 1]
    /\ net' = net (+) Send(Shops_orderRequest(c))
    /\ UNCHANGED <<app, view, ui, toast, db>>

Shops_handleSubmitOrderOk(c) ==
    /\ view = "shops"
    /\ \E r \in InFlight({"createOrder"}) :
        /\ r.client = c
        /\ db' = Created("orders", "orderId",
                         r.body @@ [createdAt |-> Some(0), transactions |-> <<>>])
        /\ ui' = [ui EXCEPT ![c].confirmedOrder =
                                Some(r.ticket @@ [orderId |-> db.nextId.orders]),
                            ![c].showOrderModal = FALSE, ![c].showTicket = TRUE,
                            ![c].selectedProduct = None,
                            ![c].selectedUniformGroup = None]
        /\ net' = net (-) Send(r)
    /\ UNCHANGED <<app, view, toast, sent>>

Shops_handleSubmitOrderFail(c) ==
    /\ view = "shops"
    /\ \E r \in InFlight({"createOrder"}) :
        /\ r.client = c
        /\ toast' = [toast EXCEPT ![c] = "Failed to place order"]
        /\ net' = net (-) Send(r)
    /\ UNCHANGED <<app, view, ui, db, sent>>

Shops_closeTicket(c) ==
    /\ view = "shops" /\ ui[c].showTicket
    /\ ui' = [ui EXCEPT ![c].showTicket = FALSE]
    /\ UNCHANGED <<app, view, toast, net, db, sent>>

Shops_Next ==
    \E c \in Clients :
        \/ Shops_loadProductsOk(c) \/ Shops_loadProductsFail(c) \/ Shops_loadUniforms(c)
        \/ Shops_handleProductOrder(c) \/ Shops_setQuantity(c)
        \/ Shops_closeOrderModal(c)
        \/ Shops_handleSubmitOrder(c) \/ Shops_handleSubmitOrderOk(c)
        \/ Shops_handleSubmitOrderFail(c) \/ Shops_closeTicket(c)

\* Both students have just opened the shop.
Shops_Init ==
    /\ app = LoggedIn(mockUsers[3]) /\ view = "shops"
    /\ ui = [c \in Clients |-> SS_InitState]
    /\ toast = [c \in Clients |-> ""]
    /\ net = SetToBag({[op |-> o, client |-> c] :
                          o \in {"getProducts", "getUniforms"}, c \in Clients})
    /\ db = Shops_Db
    /\ sent = [c \in Clients |-> 0]

SpecShops == Shops_Init /\ [][Shops_Next]_vars

\* ------------------------------------------------ the API client's session

\* The calls of login, logout and getCurrentUser made in one visit.
MaxCalls == 3

\* The accounts of the backend and the sessions it holds.
Api_Db ==
    [accounts |-> << [email |-> "admin@rtu.edu.ph", password |-> "admin123",
                      user_id |-> 1, role |-> "admin"] >>,
     sessions |-> {}, nextId |-> [sessions |-> 1]]

\* localStorage.getItem("session_id")
getSessionId == app.localStorage.session_id

\* getHeaders: the content type, and X-Session-Id when a session id is stored.
getHeaders ==
    IF IsSome(getSessionId)
    THEN [ContentType |-> "application/json", XSessionId |-> getSessionId]
    ELSE [ContentType |-> "application/json", XSessionId |-> None]

\* What the caller of the last call that settled got: the value or the error.
Api_InitState == [resolved |-> None, rejected |-> None]

Api_CredentialPool ==
    { [email |-> "admin@rtu.edu.ph", password |-> "admin123"],
      [email |-> "admin@rtu.edu.ph", password |-> "wrongpass"] }

\* login up to its fetch.
login ==
    /\ view = "api" /\ sent < MaxCalls
    /\ sent' = sent + 1
    /\ \E c \in Api_CredentialPool :
        net' = net (+) Send([op |-> "login", headers |-> getHeaders,
                             email |-> c.email, password |-> c.password])
    /\ UNCHANGED <<app, view, ui, toast, db>>

\* The backend accepted the credentials: handleResponse answers the body,
\* and its session id, when it has one, is stored.
login_Ok ==
    /\ view = "api"
    /\ \E r \in InFlight({"login"}) :
        /\ \E i \in DOMAIN db.accounts :
            /\ db.accounts[i].email = r.email /\ db.accounts[i].password = r.password
        /\ \E session_id \in {"", "session-" \o ToString(db.nextId.sessions)} :
            /\ db' = IF session_id = "" THEN db
                     ELSE [db EXCEPT !.sessions = @ \cup {session_id},
                                     !.nextId.sessions = @ + 1]
            /\ app' = IF session_id # ""
                      THEN [app EXCEPT !.localStorage.session_id = Some(session_id)]
                      ELSE app
            /\ ui' = [resolved |-> Some([message |-> "Login successful",
                                         session_id |-> session_id]),
                      rejected |-> None]
        /\ net' = net (-) Send(r)
    /\ UNCHANGED <<view, toast, sent>>

\* The backend refused (handleResponse throws the detail), or fetch threw.
login_Fail ==
    /\ view = "api"
    /\ \E r \in InFlight({"login"}) :
        /\ net' = net (-) Send(r)
        /\ ui' = [resolved |-> None,
                  rejected |-> Some(IF \E i \in DOMAIN db.accounts :
                                          /\ db.accounts[i].email = r.email
                                          /\ db.accounts[i].password = r.password
                                       THEN "Failed to fetch"
                                       ELSE "Invalid credentials")]
    /\ UNCHANGED <<app, view, toast, db, sent>>

\* logout up to its await: the request when a session id is stored, else
\* the removal at once.
logout ==
    /\ view = "api" /\ sent < MaxCalls
    /\ sent' = sent + 1
    /\ IF IsSome(getSessionId)
       THEN /\ net' = net (+) Send([op |-> "logout", headers |-> getHeaders])
            /\ UNCHANGED <<app, ui>>
       ELSE /\ app' = [app EXCEPT !.localStorage.session_id = None]
            /\ ui' = [resolved |-> Some([message |-> "void", session_id |-> ""]),
                      rejected |-> None]
            /\ UNCHANGED net
    /\ UNCHANGED <<view, toast, db>>

\* The logout request answered, with whatever status: the session id is
\* removed.
logout_Ok ==
    /\ view = "api"
    /\ \E r \in InFlight({"logout"}) :
        /\ net' = net (-) Send(r)
        /\ db' = [db EXCEPT !.sessions = @ \ {The(r.headers.XSessionId)}]
    /\ app' = [app EXCEPT !.localStorage.session_id = None]
    /\ ui' = [resolved |-> Some([message |-> "void", session_id |-> ""]),
              rejected |-> None]
    /\ UNCHANGED <<view, toast, sent>>

\* logout_Fail with the removal skipped.
logout_FailKeeping ==
    /\ view = "api"
    /\ \E r \in InFlight({"logout"}) : net' = net (-) Send(r)
    /\ ui' = [resolved |-> Some([message |-> "void", session_id |-> ""]),
              rejected |-> None]
    /\ UNCHANGED <<app, view, toast, db, sent>>

\* fetch threw: the catch logs, and the session id is removed all the same.
logout_Fail ==
    /\ view = "api"
    /\ \E r \in InFlight({"logout"}) : net' = net (-) Send(r)
    /\ app' = [app EXCEPT !.localStorage.session_id = None]
    /\ ui' = [resolved |-> Some([message |-> "void", session_id |-> ""]),
              rejected |-> None]
    /\ UNCHANGED <<view, toast, db, sent>>

\* getCurrentUser with the check of the session id left out.
getCurrentUserUnchecked ==
    /\ view = "api" /\ sent < MaxCalls
    /\ sent' = sent + 1
    /\ net' = net (+) Send([op |-> "me", headers |-> getHeaders])
    /\ UNCHANGED <<app, view, ui, toast, db>>

\* getCurrentUser up to its fetch: it throws when no session id is stored.
getCurrentUser ==
    /\ view = "api" /\ sent < MaxCalls
    /\ sent' = sent + 1
    /\ IF ~IsSome(getSessionId)
       THEN /\ ui' = [resolved |-> None, rejected |-> Some("Not authenticated")]
            /\ UNCHANGED net
       ELSE /\ net' = net (+) Send([op |-> "me", headers |-> getHeaders])
            /\ UNCHANGED ui
    /\ UNCHANGED <<app, view, toast, db>>

\* GET /auth/me answered for a session the backend holds.
getCurrentUser_Ok ==
    /\ view = "api"
    /\ \E r \in InFlight({"me"}) :
        /\ IsSome(r.headers.XSessionId) /\ The(r.headers.XSessionId) \in db.sessions
        /\ net' = net (-) Send(r)
        /\ ui' = [resolved |-> Some([message |-> "user",
                                     session_id |-> The(r.headers.XSessionId)]),
                  rejected |-> None]
    /\ UNCHANGED <<app, view, toast, db, sent>>

\* GET /auth/me refused, or fetch threw.
getCurrentUser_Fail ==
    /\ view = "api"
    /\ \E r \in InFlight({"me"}) :
        /\ net' = net (-) Send(r)
        /\ ui' = [resolved |-> None, rejected |-> Some("HTTP 401")]
    /\ UNCHANGED <<app, view, toast, db, sent>>

Api_Next ==
    \/ login \/ login_Ok \/ login_Fail
    \/ logout \/ logout_Ok \/ logout_Fail
    \/ getCurrentUser \/ getCurrentUser_Ok \/ getCurrentUser_Fail

\* A visit begins with no session id stored, or with the one an earlier
\* visit left, which the backend no longer holds.
Api_Init ==
    /\ view = "api" /\ ui = Api_InitState /\ toast = "" /\ net = EmptyBag
    /\ db = Api_Db /\ sent = 0
    /\ app \in {[localStorage |-> [session_id |-> None]],
                 [localStorage |-> [session_id |-> Some("session-0")]]}

SpecApi == Api_Init /\ [][Api_Next]_vars

\* ------------------------------------------------- properties of the managers

\* The request r is answered in this step.
Answered(r) == CopiesIn(r, net') < CopiesIn(r, net)

\* The uniform product the answered request was for is there once, with the
\* one variant of the form (size M, gender Male, type Standard Uniform), and
\* reads "out of stock" if its quantity is 0.
C5_OneProductOneVariant ==
    \A r \in InFlight({"createUniform"}) :
        (/\ Answered(r)
         /\ r.body.sizeType = "M" /\ r.body.gender = "Male"
         /\ r.body.type = "Standard Uniform") =>
            LET ps == Having(db'.products, "productId", r.body.productId)
                vs == Having(db'.uniforms, "productId", r.body.productId)
            IN  /\ Len(ps) = 1
                /\ ps[1].productCategory = "Uniform"
                /\ ps[1].quantity = 0 => ps[1].status = "out of stock"
                /\ Len(vs) = 1
                /\ vs[1].sizeType = "M" /\ vs[1].gender = "Male"
                /\ vs[1].type = "Standard Uniform"

C8_Rows ==
    (view = "orders" /\ ~ui.isLoading) =>
        LET shown == OM_filteredOrders(ui.orders, ui.searchTerm, ui.statusFilter,
                                       The(app.currentUser).role,
                                       The(app.currentUser).name)
        IN  /\ Len(OM_TableRows) = Len(shown)
            /\ \A i \in DOMAIN shown :
                /\ OM_TableRows[i].orderId = shown[i].orderId
                /\ (\A j \in DOMAIN ui.products :
                        ui.products[j].productId # shown[i].productId)
                   => OM_TableRows[i].productName = "Unknown Product"

\* C8: after a product that orders reference is deleted, a reload of the
\* Orders manager lists every order the backend holds, and the row of each
\* order whose productId matches no product of the loaded product list shows
\* "Unknown Product".
C8_UnknownProduct ==
    []C8_Rows /\ [][OM_loadOrdersOk => ui'.orders = db.orders]_vars

\* The only product was deleted and the manager reloaded: both orders are
\* listed, the first with "Unknown Product".
C8_Witness ==
    /\ view = "orders" /\ ~ui.isLoading /\ The(app.currentUser).role = "admin"
    /\ db.products = <<>> /\ ui.products = <<>>
    /\ Len(ui.orders) = 2 /\ Len(OM_TableRows) = 2
    /\ OM_TableRows[1].productName = "Unknown Product"
    /\ ui.orders[1].productId = 1

\* C9: a delete request is sent only from the confirmation dialog, for the
\* item the dialog names; pressing a row's delete button changes no data;
\* a successful delete reloads the list.
C9_ConfirmBeforeDelete ==
    [][/\ \A r \in BagToSet(net') :
            (/\ r.op \in {"deleteStudent", "deleteProduct", "deleteOrder",
                         "deleteUniform"}
             /\ CopiesIn(r, net') > CopiesIn(r, net)) =>
                /\ ui.isDeleteDialogOpen
                /\ r.op = "deleteStudent" =>
                     (IsSome(ui.studentToDelete) /\ The(ui.studentToDelete).studentId = r.id)
                /\ r.op = "deleteProduct" =>
                     (IsSome(ui.productToDelete) /\ The(ui.productToDelete).productId = r.id)
                /\ r.op = "deleteOrder" =>
                     (IsSome(ui.orderToDelete) /\ The(ui.orderToDelete).orderId = r.id)
       /\ (UM_handleDeleteClick \/ PM_handleDeleteClick \/ OM_handleDeleteClick) =>
            (db' = db /\ net' = net /\ ui'.isDeleteDialogOpen)
       /\ MO_handleDelete => ui'.orders = ui.orders
       /\ UM_handleConfirmDeleteOk => InFlight({"getStudents"})' # {}
       /\ PM_handleConfirmDeleteOk => InFlight({"getProducts"})' # {}
       /\ OM_handleConfirmDeleteOk => InFlight({"getOrders"})' # {}
      ]_vars

\* An order is gone from the list at the press of its row's delete button.
C9_Witness ==
    /\ view = "ordersLocal" /\ toast = "Order deleted successfully!"
    /\ Len(ui.orders) < Len(initialOrders)
    /\ ~ui.isDialogOpen /\ ~ui.isViewDialogOpen

C2_SizeRequired ==
    [][(SS_handleSubmitOrder /\ IsSome(ui.selectedUniformGroup)
                             /\ ui.orderData.selectedSize = "")
        => /\ toast' = "Please select a size"
           /\ net' = net /\ db' = db
           /\ ui' = ui /\ ui'.showOrderModal]_vars

\* Place Order was pressed for a uniform, two pieces, no size chosen.
C2_Witness ==
    /\ view = "shop" /\ toast = "Please select a size"
    /\ ui.showOrderModal /\ IsSome(ui.selectedUniformGroup)
    /\ ui.orderData.selectedSize = "" /\ ui.orderData.quantity = 2
    /\ ui.orderData.claimDate = "2025-11-20"
    /\ InFlight({"createOrder"}) = {} /\ sent = 0

\* ------------------------------------------------------ properties of login

\* The login form is submitted with the email of a known user and a
\* password that is not that user's.
C3_WrongPassword ==
    /\ LF_handleSubmit
    /\ \E i \in DOMAIN mockUsers :
        ui.email = mockUsers[i].email /\ ui.password # mockUsers[i].password

C3_NotAuthenticated ==
    /\ app' = app /\ ~app'.isAuthenticated /\ app'.currentUser = None
    /\ view' = "login"

\* C3, as the specification states it: submitting the login form with an
\* existing email and any wrong password shows the general message "Invalid
\* email or password" and leaves isAuthenticated, currentUser and the local
\* storage as they were.
C3_Original ==
    [][C3_WrongPassword =>
        /\ ui'.errors.general = Some("Invalid email or password")
        /\ C3_NotAuthenticated]_vars

\* C3: submitting the login form with an existing email and a wrong password
\* never authenticates: isAuthenticated stays false, currentUser stays null
\* and the local storage is not written.  A wrong password of six characters
\* or more shows the general message "Invalid email or password"; an empty
\* or shorter one is rejected by the form's validation with a message under
\* the password field and no general message.
C3_WrongPasswordRejected ==
    [][C3_WrongPassword =>
        /\ C3_NotAuthenticated
        /\ Len(ui.password) >= 6 =>
              /\ ui'.errors.general = Some("Invalid email or password")
              /\ ui'.errors.password = None
        /\ ui.password = "" =>
              /\ ui'.errors.password = Some("Password is required")
              /\ ui'.errors.general = None
        /\ (ui.password # "" /\ Len(ui.password) < 6) =>
              /\ ui'.errors.password = Some("Password must be at least 6 characters")
              /\ ui'.errors.general = None]_vars

\* The administrator's email was submitted with a wrong password.
C3_Witness ==
    /\ view = "login" /\ ui.email = "admin@rtu.edu.ph" /\ ui.password = "wrongpass"
    /\ ui.errors.general = Some("Invalid email or password")
    /\ ~app.isAuthenticated /\ app.currentUser = None /\ app.localStorage = None

\* ----------------------------------------------- properties of the dashboard

\* The order was created in the period the clock now is in; no order is
\* created after now.
C4_InPeriod(order, salesPeriod, now) ==
    \/ salesPeriod = "all"
    \/ /\ order.createdAt # None
       /\ LET created == The(order.createdAt)
              age == DayNumber(now) - DayNumber(created)
          IN  CASE salesPeriod = "today" -> age = 0
                [] salesPeriod = "week" -> age \in 0..getDay(now)
                [] salesPeriod = "month" ->
                      created.year = now.year /\ created.month = now.month
                [] salesPeriod = "year" -> created.year = now.year

\* The sum, in hundredths, of the amounts of the claimed orders of the period.
RECURSIVE C4_Revenue(_, _, _)
C4_Revenue(orders, salesPeriod, now) ==
    IF orders = <<>> THEN 0
    ELSE (IF orders[1].status = "claimed" /\ C4_InPeriod(orders[1], salesPeriod, now)
          THEN parseFloat(orders[1].amount) ELSE 0)
         + C4_Revenue(Tail(orders), salesPeriod, now)

\* C4: when a load of the dashboard completes, the total revenue displayed is
\* the sum of the amounts of the fetched orders that are claimed and were
\* created within the selected sales period; with "all" (the only period of
\* the component without a selector) every claimed order counts, with or
\* without a createdAt.
C4_RevenueOfPeriod ==
    [][/\ DH_getActivityLogsOk =>
            \E r \in InFlight({"getActivityLogs"}) :
                /\ Answered(r)
                /\ ui'.salesData.totalRevenue =
                      C4_Revenue(r.orders, ui'.salesPeriod, db.now)
       /\ DH2_getOrdersOk =>
            ui'.salesData.totalRevenue = C4_Revenue(db.orders, "all", db.now)]_vars

\* The same of the component with the sales period selector alone.
C4_RevenueOfPeriodSelected ==
    [][DH_getActivityLogsOk =>
            \E r \in InFlight({"getActivityLogs"}) :
                /\ Answered(r)
                /\ ui'.salesData.totalRevenue =
                      C4_Revenue(r.orders, ui'.salesPeriod, db.now)]_vars

\* The component without a selector has loaded three claimed orders and
\* displays no revenue.
C4_Witness ==
    /\ view = "home2" /\ ~ui.isLoading /\ net = EmptyBag
    /\ ui.stats.inventoryItems = 3
    /\ Len(SelectSeq(db.orders, LAMBDA o : o.status = "claimed")) = 3
    /\ sent = 0
    /\ ui.salesData.totalRevenue = 0

\* The component with the selector has loaded the week of a Saturday: of the
\* claimed orders the two of that week are summed.
C4_WitnessSelected ==
    /\ view = "home" /\ ~ui.isLoading /\ ui.salesPeriod = "week"
    /\ db.now = Date(2025, 11, 8, 1380) /\ sent = 0
    /\ \A i \in DOMAIN db.orders : db.orders[i].status = "claimed"
    /\ ui.salesData.totalRevenue = 6500 /\ ui.salesData.completedOrders = 2

\* ------------------------------------------------- properties of the filters

\* The bucket of a quantity that is not negative.
C1_Bucket(q) ==
    CASE q = 0 -> "out of stock"
      [] q \in 1..10 -> "low stock"
      [] q >= 11 -> "in stock"

\* C1: for every quantity q that is not negative, getStatus answers "out of
\* stock" when q = 0, "low stock" when 1 <= q <= 10 and "in stock" when
\* q >= 11; so the inventory filtered by a status shows the products of that
\* bucket.
C1_StatusBuckets ==
    view = "inventory" =>
        /\ \A i \in DOMAIN ui.products :
              getStatus(ui.products[i].quantity) = C1_Bucket(ui.products[i].quantity)
        /\ (ui.statusFilter # "all" /\ ui.searchTerm = "" /\ ui.categoryFilter = "all") =>
              PM_filteredProducts(ui.products, ui.searchTerm, ui.categoryFilter,
                                  ui.statusFilter)
              = SelectSeq(ui.products,
                          LAMBDA p : C1_Bucket(p.quantity) = ui.statusFilter)

\* Products of quantity 10 and 11 are loaded and "low stock" is selected: the
\* one of quantity 10 is shown.
C1_Witness ==
    /\ view = "inventory" /\ ui.statusFilter = "low stock"
    /\ ui.searchTerm = "" /\ ui.categoryFilter = "all"
    /\ {ui.products[i].quantity : i \in DOMAIN ui.products} = {10, 11}
    /\ Len(PM_filteredProducts(ui.products, "", "all", "low stock")) = 1
    /\ PM_filteredProducts(ui.products, "", "all", "low stock")[1].quantity = 10

\* The orders rendered by the Orders manager on screen.
C6_Shown ==
    IF view = "orders"
    THEN OM_filteredOrders(ui.orders, ui.searchTerm, ui.statusFilter,
                           The(app.currentUser).role, The(app.currentUser).name)
    ELSE MO_filteredOrders(ui.orders, ui.searchTerm, ui.statusFilter)

C6_Unfiltered ==
    view \in {"orders", "ordersLocal"} /\ ui.statusFilter = "all" /\ ui.searchTerm = ""

\* C6, as the specification states it: with the status filter "all" and no
\* search term the Orders manager lists every order of its input, in the
\* input's order.
C6_Original == C6_Unfiltered => C6_Shown = ui.orders

\* A transaction of the order names a student whose full name contains name,
\* whatever the case of the letters.
C6_OrderOf(order, name) ==
    \E i \in DOMAIN order.transactions :
        LET t == order.transactions[i]
        IN  /\ t.student # None
            /\ The(t.student).firstname # ""
            /\ includes(toLowerCase(The(t.student).firstname \o " " \o
                                    The(t.student).lastname),
                        toLowerCase(name))

\* C6: with the status filter "all" and no search term the Orders manager
\* lists every order of its input, in the input's order, unless the user is
\* a student: a student is listed, in the input's order, exactly the orders
\* a transaction of which names a student whose full name contains the
\* user's name.
C6_AllButForStudents ==
    C6_Unfiltered =>
        IF view = "orders" /\ The(app.currentUser).role = "student"
        THEN C6_Shown = SelectSeq(ui.orders,
                            LAMBDA o : C6_OrderOf(o, The(app.currentUser).name))
        ELSE C6_Shown = ui.orders

\* The administrator is listed both orders loaded, one of them of nobody.
C6_Witness ==
    /\ view = "orders" /\ The(app.currentUser).role = "admin" /\ C6_Unfiltered
    /\ Len(ui.orders) = 2 /\ C6_Shown = ui.orders
    /\ \E i \in DOMAIN ui.orders : ui.orders[i].transactions = <<>>

\* The search filter of the list on screen, applied to a list.
C7_Filter(list) ==
    CASE view = "users" -> UM_filteredStudents(list, ui.searchTerm)
      [] view = "inventory" ->
            PM_filteredProducts(list, ui.searchTerm, ui.categoryFilter, ui.statusFilter)
      [] view = "orders" ->
            OM_filteredOrders(list, ui.searchTerm, ui.statusFilter,
                              The(app.currentUser).role, The(app.currentUser).name)
      [] view = "ordersLocal" -> MO_filteredOrders(list, ui.searchTerm, ui.statusFilter)
      [] view = "shop" -> SS_filteredProducts(list, ui.searchTerm, ui.categoryFilter)

C7_List == IF view = "users" THEN ui.students
           ELSE IF view \in {"inventory", "shop"} THEN ui.products ELSE ui.orders

\* C7: the filter of each list (students, products, orders, shop products,
\* and the shop's uniform variants) applied to its own output yields what
\* applying it once yields, for every list, search term and filter selection.
C7_FilterIdempotent ==
    /\ C7_Filter(C7_Filter(C7_List)) = C7_Filter(C7_List)
    /\ view = "shop" =>
          SS_filteredUniforms(
              SS_filteredUniforms(ui.uniforms, ui.searchTerm, ui.categoryFilter),
              ui.searchTerm, ui.categoryFilter)
          = SS_filteredUniforms(ui.uniforms, ui.searchTerm, ui.categoryFilter)

\* A search term is typed that one of the two orders on screen matches.
C7_Witness ==
    /\ view = "ordersLocal" /\ ui.searchTerm = "bao-2025-001" /\ Len(ui.orders) = 2
    /\ ui.orders[2].orderNumber = "BAO-2025-001"
    /\ C7_Filter(C7_List) = <<ui.orders[2]>>

\* ------------------------------------------------ failures and notifications

\* A request of a manager is answered with a failure in this step.
C11_RequestFailed ==
    \/ UM_loadStudentsFail \/ UM_handleSubmitFail \/ UM_handleConfirmDeleteFail
    \/ PM_loadProductsFail \/ PM_uploadImageFail \/ PM_handleSubmitFail
    \/ PM_createUniformFail \/ PM_handleConfirmDeleteFail
    \/ PM_handleSubmitUniformFail \/ PM_handleDeleteUniformFail
    \/ OM_loadOrdersFail \/ OM_handleSubmitFail \/ OM_handleConfirmDeleteFail

\* The message is one of toast.error's: they all begin "Failed to".
C11_IsError(message) ==
    Len(message) >= 9 /\ SubSeq(message, 1, 9) = "Failed to"

\* C11: every failure of a request of a manager (list load, image upload,
\* create, update, delete, creation of a uniform variant) leaves an error
\* notification on screen.
C11_FailureNotified ==
    [][C11_RequestFailed => C11_IsError(toast')]_vars

\* The variant request of a new uniform failed: the success toast of the
\* product is still the one shown, the dialog is closed, the list reloading.
C11_Witness ==
    /\ view = "inventory" /\ toast = "Product created successfully!"
    /\ ~ui.isDialogOpen /\ ui.isLoading /\ InFlight({"getProducts"}) # {}
    /\ \E i \in DOMAIN db.products :
        /\ db.products[i].productCategory = "Uniform"
        /\ Having(db.uniforms, "productId", db.products[i].productId) = <<>>

\* ------------------------------------------------------ reload after a change

\* In the managers backed by the API a successful create, update or delete
\* leaves the list on screen as it is and issues the fetch of the collection,
\* and the answer to that fetch replaces the list.
C12_ApiManagers ==
    /\ (UM_handleSubmitOk \/ UM_handleConfirmDeleteOk) =>
            (ui'.students = ui.students /\ InFlight({"getStudents"})' # {})
    /\ (PM_updateProductOk \/ PM_handleConfirmDeleteOk \/ PM_createUniformOk) =>
            (ui'.products = ui.products /\ InFlight({"getProducts"})' # {})
    /\ PM_createProductOk =>
            (ui'.products = ui.products
             /\ InFlight({"getProducts", "createUniform"})' # {})
    /\ (PM_handleSubmitUniformOk \/ PM_handleDeleteUniformOk) =>
            (ui'.uniforms = ui.uniforms
             /\ (view = "inventory" /\ IsSome(ui.selectedProductForUniform)
                    => InFlight({"getUniforms"})' # {}))
    /\ (OM_handleSubmitOk \/ OM_handleConfirmDeleteOk) =>
            (ui'.orders = ui.orders /\ InFlight({"getOrders"})' # {})
    /\ UM_loadStudentsOk =>
            \E r \in InFlight({"getStudents.response"}) : ui'.students = r.data
    /\ PM_loadProductsOk => ui'.products = db.products
    /\ OM_loadOrdersOk => ui'.orders = db.orders

\* C12: after every successful create, update or delete in a manager the
\* fetch of the collection is issued and its answer replaces the list on
\* screen; the change itself never inserts into, edits or removes from the
\* list on screen.
C12_ReloadAfterMutation ==
    [][/\ C12_ApiManagers
       /\ (MO_handleSubmit \/ MO_handleDelete) => ui'.orders = ui.orders]_vars

\* C12 for the managers backed by the API alone.
C12_ApiManagersReload == [][C12_ApiManagers]_vars

\* An order was added to the list on screen by the dialog itself, with no
\* request made.
C12_Witness ==
    /\ view = "ordersLocal" /\ toast = "Order placed successfully!"
    /\ Len(ui.orders) = Len(initialOrders) + 1
    /\ net = EmptyBag /\ db = SeedDb

\* A student was created and the list on screen is still the old one while
\* the fetch of the students is awaited.
C12_WitnessApi ==
    /\ view = "users" /\ toast = "Student created successfully!"
    /\ ui.isLoading /\ InFlight({"getStudents"}) # {}
    /\ Len(db.students) = Len(ui.students) + 1

\* ------------------------------------------------------- the shop's order flow

\* C13: when the createOrder request of the shop succeeds the order modal
\* closes, the ticket opens with the order id the server answered and the
\* selection is cleared; when it fails an error toast is shown and the modal,
\* the selection, the quantity, the size, the claim date and the ticket stay
\* as they were, the ticket never being shown over an open modal.
C13_OrderFlow ==
    /\ [](view = "shop" => ~(ui.showOrderModal /\ ui.showTicket))
    /\ [][/\ SS_handleSubmitOrderOk =>
               /\ ~ui'.showOrderModal /\ ui'.showTicket
               /\ ui'.selectedProduct = None /\ ui'.selectedUniformGroup = None
               /\ IsSome(ui'.confirmedOrder)
               /\ Len(db'.orders) = Len(db.orders) + 1
               /\ The(ui'.confirmedOrder).orderId = db'.orders[Len(db'.orders)].orderId
          /\ SS_handleSubmitOrderFail =>
               /\ toast' = "Failed to place order"
               /\ ui'.showOrderModal = ui.showOrderModal
               /\ ui'.showTicket = ui.showTicket
               /\ ui'.selectedProduct = ui.selectedProduct
               /\ ui'.selectedUniformGroup = ui.selectedUniformGroup
               /\ ui'.orderData = ui.orderData
               /\ ui'.confirmedOrder = ui.confirmedOrder
               /\ db' = db
         ]_vars

\* Two ballpens were ordered: the ticket shows the order the server stored.
C13_Witness ==
    /\ view = "shop" /\ ui.showTicket /\ ~ui.showOrderModal
    /\ ui.selectedProduct = None /\ ui.selectedUniformGroup = None
    /\ IsSome(ui.confirmedOrder)
    /\ The(ui.confirmedOrder).orderId = 3 /\ The(ui.confirmedOrder).quantity = 2
    /\ Len(db.orders) = 3 /\ db.orders[3].orderId = 3

\* The order of a uniform of size M failed: the modal is still open on it.
C13_WitnessFailed ==
    /\ view = "shop" /\ toast = "Failed to place order"
    /\ ui.showOrderModal /\ ~ui.showTicket /\ IsSome(ui.selectedUniformGroup)
    /\ ui.orderData.selectedSize = "M" /\ ui.orderData.claimDate = "2025-11-20"
    /\ Len(db.orders) = 2

\* ------------------------------------------------------- the amount of an order

\* The request r is sent in this step.
C14_Sent(r) == CopiesIn(r, net') > CopiesIn(r, net)

\* The amount is the price of the product times a quantity.
C14_PriceTimesQuantity(amount, price) ==
    \E quantity \in 1..(MaxOrderQuantity + 1) : amount = price * quantity

\* C14: every order the Orders manager's create dialog submits for a product
\* has as amount the price of that product times a quantity, and a change of
\* a product changes the amount of no order.
C14_AmountIsPriceTimesQuantity ==
    [][/\ \A r \in InFlight({"createOrder"})' :
            C14_Sent(r) =>
                \A i \in DOMAIN db.products :
                    db.products[i].productId = r.body.productId =>
                        C14_PriceTimesQuantity(r.body.amount, db.products[i].price)
       /\ (PM_updateProductOk \/ PM_createProductOk) => db'.orders = db.orders
      ]_vars

\* C14 for the shop: the order submitted is for the selected product or the
\* product of the selected group, with that product's price times the
\* quantity of the modal as amount.
C14_ShopAmount ==
    [][\A r \in InFlight({"createOrder"})' :
            C14_Sent(r) =>
                LET product == IF IsSome(ui.selectedProduct) THEN The(ui.selectedProduct)
                               ELSE The(ui.selectedUniformGroup).product
                IN  /\ r.body.productId = product.productId
                    /\ r.body.amount = product.price * ui.orderData.quantity
                    /\ \E i \in DOMAIN db.products :
                          /\ db.products[i].productId = product.productId
                          /\ db.products[i].price = product.price
      ]_vars

\* An order of 20 for a ballpen of 15 is stored.
C14_Witness ==
    /\ view = "orders" /\ toast = "Order created successfully!"
    /\ \E i \in DOMAIN db.orders : \E j \in DOMAIN db.products :
        /\ db.orders[i].productId = db.products[j].productId
        /\ db.products[j].price = 15 /\ db.orders[i].amount = 20

\* Two uniforms of 350 were ordered in the shop for 700.
C14_WitnessShop ==
    /\ view = "shop" /\ ui.showTicket
    /\ \E i \in DOMAIN db.orders :
        db.orders[i].productId = 2 /\ db.orders[i].amount = 700

\* ------------------------------------------------------- the session token

\* C15: the stored session id is set only by a login the backend accepted,
\* to the session id of its answer; every logout removes it, be the logout
\* request answered or failed; a failed login leaves it as it was.
C15_SessionToken ==
    [][/\ (getSessionId' # getSessionId /\ IsSome(getSessionId')) =>
            /\ login_Ok
            /\ The(getSessionId') \in db'.sessions \ db.sessions
            /\ IsSome(ui'.resolved)
            /\ The(ui'.resolved).session_id = The(getSessionId')
       /\ (logout_Ok \/ logout_Fail \/ (logout /\ net' = net)) =>
            getSessionId' = None
       /\ login_Fail => getSessionId' = getSessionId
      ]_vars

\* A login stored the session id of its answer and a logout removed it; the
\* backend still holds the session, as after a logout request that failed.
C15_Witness ==
    /\ view = "api" /\ getSessionId = None /\ "session-1" \in db.sessions
    /\ InFlight({"logout"}) = {} /\ sent >= 2

\* C16: getCurrentUser called with no session id stored throws "Not
\* authenticated" and sends nothing; a request to /auth/me is sent only with
\* a session id stored, which it carries.
C16_NotAuthenticated ==
    [][/\ (getCurrentUser /\ ~IsSome(getSessionId)) =>
            /\ net' = net
            /\ ui'.rejected = Some("Not authenticated")
       /\ \A r \in InFlight({"me"})' :
            CopiesIn(r, net') > CopiesIn(r, net) =>
                IsSome(getSessionId) /\ r.headers.XSessionId = getSessionId
      ]_vars

\* getCurrentUser threw after the logout had removed the session id.
C16_Witness ==
    /\ view = "api" /\ getSessionId = None /\ net = EmptyBag
    /\ ui.rejected = Some("Not authenticated") /\ sent >= 2

\* --------------------------------------------------- the status of a product

\* The bucket of a quantity: out of stock up to 0, low stock up to 10.
C17_Bucket(quantity) ==
    IF quantity <= 0 THEN "out of stock"
    ELSE IF quantity <= 10 THEN "low stock"
    ELSE "in stock"

\* C17: every product create or update request the Products manager sends
\* carries the status of the bucket of the quantity it carries, the bucket
\* being out of stock for every quantity of 0 or less.
C17_StatusMatchesQuantity ==
    [][\A r \in InFlight({"createProduct", "updateProduct"})' :
            C14_Sent(r) => r.body.status = C17_Bucket(r.body.quantity)]_vars

\* A product of quantity -1 was created with the status "low stock".
C17_Witness ==
    /\ view = "inventory"
    /\ \E i \in DOMAIN db.products :
        /\ db.products[i].productName = "Eraser"
        /\ db.products[i].quantity = -1 /\ db.products[i].status = "low stock"

\* ------------------------------------------------------------- the last unit

\* The quantity ordered of the product, over the orders the backend stores.
RECURSIVE C18_Ordered(_, _)
C18_Ordered(orders, product) ==
    IF orders = <<>> THEN 0
    ELSE C18_Ordered(Tail(orders), product)
         + (IF Head(orders).productId = product.productId
            THEN Head(orders).amount \div product.price ELSE 0)

\* C18: a student with the order modal open on a product can submit the
\* order whatever the stock of the product and whatever the other student
\* has ordered or is ordering: the client checks no stock and reserves none.
C18_NoStockCheck ==
    view = "shops" =>
        \A c \in Clients :
            (ui[c].showOrderModal /\ IsSome(ui[c].selectedProduct)
             /\ sent[c] < MaxWrites)
            => ENABLED Shops_handleSubmitOrder(c)

\* Both students ordered the last ballpen and the backend stored both
\* orders: more is ordered than is in stock.
C18_Witness ==
    /\ view = "shops"
    /\ \A c \in Clients : ui[c].showTicket /\ The(ui[c].confirmedOrder).quantity = 1
    /\ db.products[1].quantity = 1
    /\ C18_Ordered(db.orders, db.products[1]) = 2

\* Both createOrder requests for the last ballpen are in flight.
C18_WitnessBothSent ==
    /\ view = "shops" /\ db.products[1].quantity = 1
    /\ \A c \in Clients :
        \E r \in InFlight({"createOrder"}) :
            r.client = c /\ r.body.productId = 1 /\ r.ticket.quantity = 1

\* ------------------------------------------------ a uniform without variant

\* C19: the creation of a uniform product makes the product request and
\* then, for the product created, the variant request; when the variant
\* request fails the product stays as created, no request to undo it is
\* made, the dialog closes and the product list is reloaded.
C19_NoRollback ==
    [][/\ \A r \in InFlight({"createProduct"}) :
            (PM_createProductOk /\ Answered(r)
             /\ r.body.productCategory = "Uniform") =>
                /\ Having(db'.products, "productId", db.nextId.products) # <<>>
                /\ \E u \in InFlight({"createUniform"})' :
                      u.body.productId = db.nextId.products
       /\ \A r \in InFlight({"createUniform"}) :
            (PM_createUniformFail /\ Answered(r)) =>
                /\ db' = db
                /\ Having(db'.products, "productId", r.body.productId) # <<>>
                /\ Having(db'.uniforms, "productId", r.body.productId) = <<>>
                /\ InFlight({"deleteProduct"})' = InFlight({"deleteProduct"})
                /\ ~ui'.isDialogOpen /\ ui'.isLoading
                /\ InFlight({"getProducts"})' # {}
      ]_vars

\* The variant request failed and the list was reloaded: the new uniform is
\* listed, the dialog is closed, and the backend has no variant of it.
C19_Witness ==
    /\ view = "inventory" /\ ~ui.isLoading /\ ~ui.isDialogOpen
    /\ toast = "Product created successfully!"
    /\ \E i \in DOMAIN ui.products :
        /\ ui.products[i].productCategory = "Uniform"
        /\ ui.products[i].productId = db.nextId.products - 1
        /\ Having(db.uniforms, "productId", ui.products[i].productId) = <<>>

\* ------------------------------------------------------ the groups of uniforms

\* The variants that pass the shop's filter, and their groups.
C20_Filtered == SS_filteredUniforms(ui.uniforms, ui.searchTerm, ui.categoryFilter)

C20_Groups == SS_groupedUniforms(C20_Filtered)

\* Every filtered variant is in exactly one group, once, and that group has
\* its type and gender; a group holds only variants of its type and gender.
C20_Partition ==
    /\ \A i \in DOMAIN C20_Filtered :
        /\ Cardinality({<<g, v>> \in (DOMAIN C20_Groups) \X (1..Len(C20_Filtered)) :
                            /\ v \in DOMAIN C20_Groups[g].variants
                            /\ C20_Groups[g].variants[v] = C20_Filtered[i]}) = 1
        /\ \E g \in DOMAIN C20_Groups :
            /\ C20_Groups[g].type = C20_Filtered[i].type
            /\ C20_Groups[g].gender = C20_Filtered[i].gender
            /\ \E v \in DOMAIN C20_Groups[g].variants :
                  C20_Groups[g].variants[v] = C20_Filtered[i]
    /\ \A g \in DOMAIN C20_Groups : \A v \in DOMAIN C20_Groups[g].variants :
        /\ C20_Groups[g].variants[v].type = C20_Groups[g].type
        /\ C20_Groups[g].variants[v].gender = C20_Groups[g].gender

\* C20: in the shop every variant that passes the filter is in exactly one
\* group, that of its type and gender, and all variants of a group reference
\* the product of the group, whose price and stock are theirs.
C20_GroupSharesProduct ==
    view = "shop" =>
        /\ C20_Partition
        /\ \A g \in DOMAIN C20_Groups : \A v \in DOMAIN C20_Groups[g].variants :
            /\ C20_Groups[g].variants[v].productId = C20_Groups[g].product.productId
            /\ C20_Groups[g].variants[v].product.price = C20_Groups[g].product.price
            /\ C20_Groups[g].variants[v].product.quantity
               = C20_Groups[g].product.quantity

\* C20 without the shared product: the grouping alone.
C20_GroupedByTypeAndGender == view = "shop" => C20_Partition

\* The male standard uniform is one card with the sizes M and L, which
\* are two products of different price and stock.
C20_Witness ==
    /\ view = "shop" /\ ~ui.isLoading /\ Len(C20_Groups) = 1
    /\ Len(C20_Groups[1].variants) = 2
    /\ C20_Groups[1].product.productId = 2 /\ C20_Groups[1].product.price = 350
    /\ C20_Groups[1].variants[2].sizeType = "L"
    /\ C20_Groups[1].variants[2].product.productId = 3
    /\ C20_Groups[1].variants[2].product.price = 360

\* The Products manager created a second male standard uniform: its variant
\* and the one there was reference two products.
C20_WitnessInventory ==
    /\ view = "inventory" /\ toast = "Uniform variant created!"
    /\ \E i, j \in DOMAIN db.uniforms :
        /\ db.uniforms[i].type = db.uniforms[j].type
        /\ db.uniforms[i].gender = db.uniforms[j].gender
        /\ db.uniforms[i].productId # db.uniforms[j].productId

\* ------------------------------------------------- the orders a student sees

\* The order was placed by the student of that name: a transaction of it
\* names a student of exactly that full name.
C21_PlacedBy(order, name) ==
    \E i \in DOMAIN order.transactions :
        /\ IsSome(order.transactions[i].student)
        /\ toLowerCase(The(order.transactions[i].student).firstname \o " " \o
                       The(order.transactions[i].student).lastname)
           = toLowerCase(name)

\* C21: for a student the Orders manager lists no order placed by another
\* student, whatever the search term and the status filter.
C21_OwnOrdersOnly ==
    (view = "orders" /\ The(app.currentUser).role = "student") =>
        \A i \in DOMAIN C6_Shown :
            C21_PlacedBy(C6_Shown[i], The(app.currentUser).name)

\* Juan Dela Cruz, who selected the status "pending", is listed the order
\* of Don Juan dela cruz.
C21_Witness ==
    /\ view = "orders" /\ The(app.currentUser).role = "student"
    /\ ui.statusFilter = "pending"
    /\ The(app.currentUser).name = "Juan Dela Cruz"
    /\ \E i \in DOMAIN C6_Shown :
        /\ C6_Shown[i].orderId = 3
        /\ \E t \in DOMAIN C6_Shown[i].transactions :
            /\ IsSome(C6_Shown[i].transactions[t].student)
            /\ The(C6_Shown[i].transactions[t].student).firstname = "Don Juan"

\* ------------------------------------------------- the category of a product

\* The options of the category select.
C22_Categories == {"Book", "Uniform", "Supplies", "Equipment", "Other"}

\* C22: every product create or update request the Products manager sends
\* has one of the categories of the category select.
C22_CategoryEnumerated ==
    [][\A r \in InFlight({"createProduct", "updateProduct"})' :
            C14_Sent(r) => r.body.productCategory \in C22_Categories]_vars

\* A product was created from the Add dialog with the category the dialog
\* opens with.
C22_Witness ==
    /\ view = "inventory" /\ toast = "Product created successfully!"
    /\ \E i \in DOMAIN db.products :
        /\ db.products[i].productName = "Stapler"
        /\ db.products[i].productCategory = "ID & Cards"
        /\ db.products[i].productCategory = PM_EmptyForm.productCategory

\* ------------------------------------------------- the product of a size

\* C23: an order placed for a uniform group with a size selected is for the
\* product of the group's variant of that size, at that product's price.
C23_ProductOfSize ==
    [][\A r \in InFlight({"createOrder"})' :
            (C14_Sent(r) /\ view = "shop" /\ IsSome(ui.selectedUniformGroup)) =>
                \E v \in DOMAIN The(ui.selectedUniformGroup).variants :
                    LET variant == The(ui.selectedUniformGroup).variants[v]
                    IN  /\ variant.sizeType = ui.orderData.selectedSize
                        /\ r.body.productId = variant.productId
                        /\ r.body.amount = variant.product.price * ui.orderData.quantity
      ]_vars

\* The size L, which is product 3 at 360, was ordered: the order stored is
\* for product 2 at 350.
C23_Witness ==
    /\ view = "shop" /\ ui.showTicket /\ IsSome(ui.confirmedOrder)
    /\ The(ui.confirmedOrder).selectedSize = "L"
    /\ The(ui.confirmedOrder).quantity = 1
    /\ \E i \in DOMAIN db.orders :
        /\ db.orders[i].orderId = The(ui.confirmedOrder).orderId
        /\ db.orders[i].productId = 2 /\ db.orders[i].amount = 350
    /\ \E j \in DOMAIN ui.uniforms :
        /\ ui.uniforms[j].sizeType = "L" /\ ui.uniforms[j].productId = 3
        /\ ui.uniforms[j].product.price = 360

\* ------------------------------------------- the variants dialog's product

\* C24: while the Uniform Variants dialog is open for a product, every
\* variant it lists belongs to that product.
C24_VariantsOfSelected ==
    (view = "inventory" /\ ui.isUniformDialogOpen /\ IsSome(ui.selectedProductForUniform)) =>
        \A i \in DOMAIN ui.uniforms :
            ui.uniforms[i].productId = The(ui.selectedProductForUniform).productId

\* The dialog was opened for product 3, closed, and opened for the uniform
\* product created since: it lists the variant of product 3, and no load is
\* left to replace it.
C24_Witness ==
    /\ view = "inventory" /\ ui.isUniformDialogOpen
    /\ IsSome(ui.selectedProductForUniform)
    /\ The(ui.selectedProductForUniform).productId = 4
    /\ InFlight({"getUniforms"}) = {}
    /\ \E i \in DOMAIN ui.uniforms : ui.uniforms[i].productId = 3

\* ------------------------------------------------- overlapping list reloads

\* C25: in the Users manager, once no request is outstanding and the last
\* notification is the success of a mutation (so no request has failed
\* since), the list on screen is the server's collection.
C25_NewestLoadWins ==
    (/\ view = "users" /\ net = EmptyBag
     /\ toast \in {"Student created successfully!", "Student updated successfully!",
                   "Student deleted successfully!"}) =>
        ui.students = db.students

\* The server answered the first load, a student was created, and the
\* response of the first load arrived after the response of the reload: the
\* list on screen lacks the student and nothing is left to arrive.
C25_Witness ==
    /\ view = "users" /\ net = EmptyBag
    /\ toast = "Student created successfully!"
    /\ ~ui.isLoading /\ ~ui.isDialogOpen
    /\ ui.students = SeedDb.students
    /\ Len(db.students) = Len(SeedDb.students) + 1

\* ------------------------------------------------- the order quantity's sign

\* C26: in the shop the order quantity is at least 1 in every state, and
\* every createOrder request sent carries an amount that is not negative.
C26_QuantityPositive ==
    [][view = "shop" =>
         /\ ui'.orderData.quantity >= 1
         /\ \A r \in InFlight({"createOrder"})' :
                C14_Sent(r) => (r.ticket.quantity >= 1 /\ r.body.amount >= 0)
      ]_vars

\* "-1" was typed into the quantity input and the order was placed: the
\* ticket shows the quantity -1 and the order stored has a negative amount.
C26_Witness ==
    /\ view = "shop" /\ ui.showTicket /\ IsSome(ui.confirmedOrder)
    /\ The(ui.confirmedOrder).quantity = -1
    /\ \E i \in DOMAIN db.orders :
        /\ db.orders[i].orderId = The(ui.confirmedOrder).orderId
        /\ db.orders[i].amount < 0

\* --------------------------------------------------- the views of each role

\* C27: the view the Dashboard shell renders is one the current user's role
\* may see: Users for an admin only, Inventory never for a student.
C27_ViewAllowedForRole ==
    (view = "dashboard" /\ IsSome(app.currentUser)) =>
        /\ ui.activeView = "users" => The(app.currentUser).role = "admin"
        /\ ui.activeView = "inventory" => The(app.currentUser).role # "student"
        /\ \E i \in DOMAIN menuItems(The(app.currentUser).role) :
               menuItems(The(app.currentUser).role)[i].id = ui.activeView

\* A student is logged in, the user kept in local storage is the same, and
\* Orders was clicked.
C27_Witness ==
    /\ view = "dashboard" /\ IsSome(app.currentUser)
    /\ The(app.currentUser).role = "student"
    /\ app.localStorage = app.currentUser
    /\ ui.activeView = "orders"

\* The staff member has the Inventory view active.
C27_WitnessStaff ==
    /\ view = "dashboard" /\ IsSome(app.currentUser)
    /\ The(app.currentUser).role = "staff"
    /\ ui.activeView = "inventory"

\* ------------------------------------------------- an update with no change

\* The four fields the product form and a product have in common.
C28_Fields(x) ==
    [productName |-> x.productName, productCategory |-> x.productCategory,
     price |-> x.price, quantity |-> x.quantity]

\* C28: the update sent from the edit dialog whose fields were left as the
\* dialog filled them carries the product's name, category, price and
\* quantity.
C28_UnchangedUpdate ==
    [][\A r \in InFlight({"updateProduct"})' :
            (/\ C14_Sent(r) /\ IsSome(r.c.editingProduct)
             /\ C28_Fields(r.c.formData) = C28_Fields(The(r.c.editingProduct))) =>
                C28_Fields(r.body) = C28_Fields(The(r.c.editingProduct))
      ]_vars

\* The uniform "Male Standard Uniform Shirt M" was opened for editing and
\* updated as it was: it is stored under the name made from the variant
\* form's defaults.
C28_Witness ==
    /\ view = "inventory" /\ toast = "Product updated successfully!"
    /\ \E i \in DOMAIN db.products :
        /\ db.products[i].productId = 3
        /\ db.products[i].productName = "Unisex Standard Uniform Shirt M"
        /\ db.products[i].productCategory = "Uniform"
        /\ db.products[i].price = 350 /\ db.products[i].quantity = 5

\* ------------------------------------------------ a student's Orders manager

C30_LowStockProducts ==
    SelectSeq(db.products, LAMBDA p : getStatus(p.quantity) = "low stock")

\* C30: the "Low Stock Items" number a dashboard sets from a load is the
\* number of products whose derived status is "low stock".
C30_LowStockAgrees ==
    [][(DH_getActivityLogsOk \/ DH2_getOrdersOk) =>
            ui'.stats.lowStockItems = Len(C30_LowStockProducts)]_vars

\* The dashboard has loaded the three products, of quantity 40, 9 and 10:
\* it reports one low-stock item, the Products manager derives "low stock"
\* for two, the product of quantity 10 among them.
C30_Witness ==
    /\ view \in {"home", "home2"} /\ ~ui.isLoading
    /\ ui.stats.inventoryItems = Len(db.products)
    /\ ui.stats.lowStockItems = 1
    /\ Len(C30_LowStockProducts) = 2
    /\ \E i \in DOMAIN C30_LowStockProducts : C30_LowStockProducts[i].quantity = 10

====
